---- MODULE Spec2Model ----
(***************************************************************************)
(* Verification model of the job scheduler (QueueManager) of the speaker-   *)
(* diarization service.  One state machine step is one run-to-completion    *)
(* turn of the JavaScript event loop: a call of enqueue, the firing of a    *)
(* client abort signal, the settlement of a task's work promise, the firing *)
(* of a task's timeout timer, a pass of the cleanup interval, or the wall   *)
(* clock advancing by one unit.                                             *)
(*                                                                         *)
(* Time is counted in units of the cleanup interval (60000 ms).             *)
(*                                                                         *)
(* The result cache (CacheManager) and the request handler that uses both  *)
(* are modelled next to the scheduler: a call of set, get or clear, a pass  *)
(* of the cache's sweep interval, the arrival of a request body and the     *)
(* handler's continuation after its task's promise settled are steps too.   *)
(*                                                                         *)
(* The accessor getInstance, the ids the callers give their tasks and the  *)
(* lifecycle events the scheduler emits are part of the state: a call of   *)
(* getInstance is a step, and every emit is recorded in the log of the     *)
(* task it reports on.                                                     *)
(*                                                                         *)
(* What runs inside a work is modelled as well: the separation pipeline    *)
(* (SepFormerSeparation) and the diarization pipeline (SherpaDiarization)  *)
(* with their temp files, one step per await; the post-processing of the   *)
(* segmentation model's output and the assembly of the DiarizationResult   *)
(* as operators applied to inputs drawn by Init.                           *)
(***************************************************************************)
EXTENDS Naturals, Integers, Sequences, FiniteSets, TLC

\* ---------------------------------------------------------------- bounds
\* number of requests that are submitted under Spec
NumTasks == 3
\* largest maxConcurrent and maxQueueSize the scheduler is constructed with
MaxConcurrentArg == 2
MaxQueueSizeArg == 2
\* taskTimeout the scheduler is constructed with, in clock units
TaskTimeoutArg == 2
\* the wall clock stops advancing here
MaxTime == 4

\* the configuration SpecBacklog constructs the scheduler with
BacklogConcurrent == 1
BacklogQueueSize == 3

\* period of the setInterval of startCleanupInterval, in clock units
CleanupInterval == 1

\* largest maxSize the cache is constructed with
MaxSizeArg == 2
\* ttl the cache is constructed with, in clock units
ttl == 2
\* period of the setInterval of the cache's sweep, in clock units
SweepInterval == 2
\* number of different request bodies, and of different values to cache
NumBytes == 3
NumValues == 2
\* number of different bodies the clients of SpecHandler upload
NumUploads == 2

\* postProcessSegments: probabilities are counted in tenths, times in
\* quarters of a second
ProbUnits == 10
\* number of classes of the segmentation model's output: class 0 is
\* non-speech, class k is speaker k - 1
NumClasses == 3
\* the most frames an inference output has
MaxFrames == 5
\* the longest frame step, in quarters of a second
MaxFrameStep == 2
\* threshold = 0.3, in tenths
threshold == 3
\* the least duration of an emitted segment, 0.5 s, in quarters of a second
MinDuration == 2

\* result assembly: speaker ids are 0..NumSpeakerIds - 1, and processAudio
\* returns at most MaxSegments segments
NumSpeakerIds == 6
MaxSegments == 6
\* index % 5 of the colour lookup
PaletteModulus == 5

\* separation: number of concurrent requests, and of segments of each
NumCalls == 2
NumSegments == 2

\* number of calls of getInstance that are followed
NumGets == 3

\* number of different task ids the callers of SpecIds choose from
NumIds == 2

\* requests submitted under Spec
Clients == 1..NumTasks
\* requests submitted under SpecBacklog: enough to fill every slot and the
\* queue, and one more
BacklogClients == 1..(BacklogConcurrent + BacklogQueueSize + 1)
\* every task id
Tasks == Clients \cup BacklogClients

\* request bodies, and the values a caller of set hands over
Bytes == 1..NumBytes
Values == 1..NumValues
\* get returns null
NoValue == 0
\* the bodies uploaded under SpecHandler
Uploads == 1..NumUploads

VARIABLES
    instance,       \* QueueManager.instance: 0 while undefined, otherwise
                    \* the number of the object it refers to
    calls,          \* history: arguments and result of each getInstance call
    taskId,         \* QueueTask.id: the id the caller gave for each task
    maxConcurrent,  \* readonly field, set by the constructor
    maxQueueSize,   \* readonly field, set by the constructor
    taskTimeout,    \* readonly field, set by the constructor
    queue,          \* this.queue: sequence of task ids, head first
    activeCount,    \* this.activeCount
    now,            \* Date.now()
    nextCleanup,    \* time of the next firing of the cleanup interval
    phase,          \* where each task is: new / rejected / queued / running /
                    \* finished / removed / expired / dropped
    handle,         \* state of the promise enqueue returned to the submitter
    work,           \* state of the promise task.execute() returned
    aborted,        \* abortSignal.aborted of the task's signal
    timestamp,      \* QueueTask.timestamp
    startedAt,      \* time at which processNext armed the task's timer
    timer,          \* TRUE while the task's setTimeout is armed
    started,        \* history: task ids in the order execute() was called
    emitted,        \* history: the events emitted for each task, in order
    maxSize,        \* CacheManager: readonly field, set by the constructor
    cache,          \* CacheManager.cache: the Map's entries in insertion order
    nextSweep,      \* time of the next firing of the cache's sweep interval
    got,            \* history: key, value and time of the latest call of get
    bytes,          \* handler: the body of each request, 0 before it arrived
    resp,           \* handler: the response sent for each request
    processing,     \* pipeline singleton: this.processing
    tempFiles,      \* pipeline singleton: this.tempFiles, a set of paths
    disk,           \* the paths that exist in the temp directory
    pc,             \* where the work of each request stands
    seg,            \* separateSpeaker: the loop index of each call
    clips,          \* separateSpeaker: the results pushed by each call
    outputData,     \* postProcessSegments: class probabilities per frame
    audioDuration,  \* postProcessSegments: its second argument
    segments,       \* postProcessSegments: the list it returned
    processed,      \* TRUE once postProcessSegments has returned
    speakerSegments,\* handler: the list processAudio returned
    result          \* handler: the DiarizationResult built from it

cacheVars == <<maxSize, cache, nextSweep, got>>

handlerVars == <<bytes, resp>>

pipelineVars == <<processing, tempFiles, disk, pc, seg, clips>>

postVars == <<outputData, audioDuration, segments, processed>>

resultVars == <<speakerSegments, result>>

\* the state of what runs inside a work
stageVars == <<pipelineVars, postVars, resultVars>>

\* what no step after construction writes: the accessor's state, the
\* readonly fields and the ids the callers chose
givenVars == <<instance, calls, taskId, maxConcurrent, maxQueueSize,
               taskTimeout>>

\* what the scheduler does not touch
serviceVars == <<cacheVars, handlerVars, stageVars>>

vars == <<givenVars, queue, activeCount, now, nextCleanup,
          phase, handle, work, aborted, timestamp, startedAt, timer, started,
          emitted, cacheVars, handlerVars, stageVars>>

\* ------------------------------------------------------- helper operators

\* mutant: a later resolve/reject replaces the outcome
SettleOverwrites(h, outcome) == outcome

\* A promise settles once: resolve/reject of a settled promise is a no-op.
Settle(h, outcome) == IF h = "pending" THEN outcome ELSE h

\* mutant: the capacity test counts the running tasks as well
QueueIsFullCountsRunning(q) == Len(q) + activeCount >= maxQueueSize

\* mutant: the capacity test is off by one
QueueIsFullLate(q) == Len(q) > maxQueueSize

\* enqueue, first guard: this.queue.length >= this.maxQueueSize
QueueIsFull(q) == Len(q) >= maxQueueSize

\* mutant: enqueue does not look at the signal before queuing
SignalAbortedIgnored(id) == FALSE

\* enqueue, second guard: abortSignal?.aborted
SignalAborted(id) == aborted[id]

\* mutant: unshift instead of push
PushFront(q, id) == <<id>> \o q

\* this.queue.push(queueTask)
Push(q, id) == Append(q, id)

RECURSIVE Filter(_, _)
\* mutant: the filter callback returns true for every task
FilterKeepsAll(q, keep) == q

\* Array.prototype.filter, keeping the order of the kept elements
Filter(q, keep) ==
    IF q = << >> THEN << >>
    ELSE IF Head(q) \in keep THEN <<Head(q)>> \o Filter(Tail(q), keep)
         ELSE Filter(Tail(q), keep)

\* this.queue.findIndex(t => t.id === taskId), counted from 1; 0 for -1
RECURSIVE FindIndex(_, _)
FindIndex(q, wanted) ==
    IF q = << >> THEN 0
    ELSE IF taskId[Head(q)] = wanted THEN 1
         ELSE LET index == FindIndex(Tail(q), wanted)
              IN IF index = 0 THEN 0 ELSE index + 1

\* this.queue.splice(index, 1)
Splice(q, index) == SubSeq(q, 1, index - 1) \o SubSeq(q, index + 1, Len(q))

\* mutant: the task is left in the queue
RemoveTaskNothing(q, id) == q

\* removeTask: findIndex + splice of the first queued task that has the id
\* of task id
RemoveTask(q, id) ==
    LET index == FindIndex(q, taskId[id])
    IN IF index # 0 THEN Splice(q, index) ELSE q

\* mutant: the slot test is off by one
CannotAdmitLate(ac, q) == ac > maxConcurrent \/ Len(q) = 0

\* processNext, early return: no free slot or nothing queued
CannotAdmit(ac, q) == ac >= maxConcurrent \/ Len(q) = 0

\* this.queue.shift(): the task taken and the queue left
ShiftTask(q) == Head(q)
ShiftRest(q) == Tail(q)

\* mutant: a task is stale as soon as it has waited taskTimeout
IsStaleEarly(t, ts) == t - ts >= taskTimeout

\* startCleanupInterval: now - task.timestamp > this.taskTimeout
IsStale(t, ts) == t - ts > taskTimeout

\* mutant: the timer is armed one unit too long
TimerDueLate(t, st) == t - st > taskTimeout

\* the timer armed by processNext is due
TimerDue(t, st) == t - st >= taskTimeout

\* The synchronous part of processNext, up to its await, on the scheduler
\* state s (a record of the variables it reads and writes).
RECURSIVE ProcessNext(_)
\* mutant: processNext starts the work and arms no timer
ProcessNextNoTimer(s) ==
    IF CannotAdmit(s.activeCount, s.queue) THEN s
    ELSE LET task == ShiftTask(s.queue)
             rest == ShiftRest(s.queue)
         IN IF aborted[task]
            THEN ProcessNext([s EXCEPT !.queue = rest,
                                       !.handle[task] = Settle(@, "Cancelled"),
                                       !.timestamp[task] = 0,
                                       !.phase[task] = "dropped"])
            ELSE [s EXCEPT !.queue = rest,
                           !.activeCount = @ + 1,
                           !.phase[task] = "running",
                           !.work[task] = "executing",
                           !.startedAt[task] = now,
                           !.started = Append(@, task),
                           !.emitted[task] = Append(@, "started")]

ProcessNext(s) ==
    IF CannotAdmit(s.activeCount, s.queue) THEN s
    ELSE LET task == ShiftTask(s.queue)
             rest == ShiftRest(s.queue)
         IN IF aborted[task]
            THEN ProcessNext([s EXCEPT !.queue = rest,
                                       !.handle[task] = Settle(@, "Cancelled"),
                                       !.timestamp[task] = 0,
                                       !.phase[task] = "dropped"])
            ELSE [s EXCEPT !.queue = rest,
                           !.activeCount = @ + 1,
                           !.phase[task] = "running",
                           !.work[task] = "executing",
                           !.timer[task] = TRUE,
                           !.startedAt[task] = now,
                           !.started = Append(@, task),
                           !.emitted[task] = Append(@, "started")]

\* the scheduler state as a record, and its write-back
Sched == [queue |-> queue, activeCount |-> activeCount, phase |-> phase,
          handle |-> handle, work |-> work, timer |-> timer,
          timestamp |-> timestamp, startedAt |-> startedAt,
          started |-> started, emitted |-> emitted]

Store(s) ==
    /\ queue' = s.queue
    /\ activeCount' = s.activeCount
    /\ phase' = s.phase
    /\ handle' = s.handle
    /\ work' = s.work
    /\ timer' = s.timer
    /\ timestamp' = s.timestamp
    /\ startedAt' = s.startedAt
    /\ started' = s.started
    /\ emitted' = s.emitted

\* mutant: the handler rejects only a task it found in the queue
AbortHandlerQueuedOnly(s, id) ==
    IF s.phase[id] = "queued"
    THEN [s EXCEPT !.queue = RemoveTask(@, id),
                   !.phase[id] = "removed",
                   !.timestamp[id] = 0,
                   !.handle[id] = Settle(@, "Cancelled")]
    ELSE s

\* abortHandler of enqueue: removeTask(taskId), then reject; the task object
\* of a task taken out of the queue is dropped
AbortHandler(s, id) ==
    LET index == FindIndex(s.queue, taskId[id])
        found == IF index = 0 THEN {} ELSE {s.queue[index]}
    IN [s EXCEPT !.queue = RemoveTask(@, id),
                 !.phase = [t \in Tasks |->
                               IF t \in found THEN "removed" ELSE @[t]],
                 !.timestamp = [t \in Tasks |->
                                   IF t \in found THEN 0 ELSE @[t]],
                 !.emitted = [t \in Tasks |->
                                 IF t \in found THEN Append(@[t], "removed")
                                 ELSE @[t]],
                 !.handle[id] = Settle(@, "Cancelled")]

\* the event emitted after the race: 'task-completed' in the try block,
\* 'task-failed' in the catch block
RaceEvent(o) == IF o = "Complete" THEN "completed" ELSE "failed"

\* mutant: the finally block frees the slot and admits nobody
RaceSettledNoNext(s, id, o) ==
    [s EXCEPT !.handle[id] = Settle(@, o),
              !.phase[id] = "finished",
              !.timestamp[id] = 0,
              !.activeCount = @ - 1]

\* mutant: the finally block admits the next task and keeps the slot counted
RaceSettledNoRelease(s, id, o) ==
    ProcessNext([s EXCEPT !.handle[id] = Settle(@, o),
                          !.phase[id] = "finished",
                          !.timestamp[id] = 0])

\* the catch/finally of processNext after the race settled with outcome o;
\* the task object is dropped when processNext returns
RaceSettled(s, id, o) ==
    ProcessNext([s EXCEPT !.handle[id] = Settle(@, o),
                          !.emitted[id] = Append(@, RaceEvent(o)),
                          !.phase[id] = "finished",
                          !.timestamp[id] = 0,
                          !.activeCount = @ - 1])

\* ------------------------------------------------------------------ Init
\* the fields of a scheduler that has accepted no task, and of a cache, a
\* handler and pipelines that have done nothing
Fresh ==
    /\ queue = << >>
    /\ emitted = [t \in Tasks |-> << >>]
    /\ activeCount = 0
    /\ now = 0
    /\ nextCleanup = CleanupInterval
    /\ phase = [t \in Tasks |-> "new"]
    /\ handle = [t \in Tasks |-> "pending"]
    /\ work = [t \in Tasks |-> "none"]
    /\ aborted = [t \in Tasks |-> FALSE]
    /\ timestamp = [t \in Tasks |-> 0]
    /\ startedAt = [t \in Tasks |-> 0]
    /\ timer = [t \in Tasks |-> FALSE]
    /\ started = << >>
    /\ cache = << >>
    /\ nextSweep = SweepInterval
    /\ got = [hash |-> 0, data |-> NoValue, at |-> 0]
    /\ bytes = [t \in Tasks |-> 0]
    /\ resp = [t \in Tasks |-> [status |-> 0, data |-> NoValue,
                                 cached |-> FALSE]]
    /\ processing = FALSE
    /\ tempFiles = {}
    /\ disk = {}
    /\ pc = [t \in Tasks |-> "idle"]
    /\ seg = [t \in Tasks |-> 0]
    /\ clips = [t \in Tasks |-> {}]

\* the fields after the constructor ran, the configuration apart
Constructed ==
    /\ instance = 1
    /\ calls = << >>
    /\ taskId = [t \in Tasks |-> t]
    /\ taskTimeout = TaskTimeoutArg
    /\ Fresh

\* no inference output and no segment list is at hand
NoInput ==
    /\ outputData = << >>
    /\ audioDuration = 0
    /\ segments = << >>
    /\ processed = FALSE
    /\ speakerSegments = << >>
    /\ result = [segments |-> << >>, speakers |-> << >>, duration |-> 0,
                 totalSpeakers |-> 0, method |-> "none"]

Init ==
    /\ maxConcurrent \in 1..MaxConcurrentArg
    /\ maxQueueSize \in 1..MaxQueueSizeArg
    /\ maxSize = MaxSizeArg
    /\ Constructed
    /\ NoInput

\* --------------------------------------------------------------- actions

\* enqueue(taskId, task, abortSignal); submissions are numbered in the
\* order they are made.
Enqueue(id) ==
    /\ phase[id] = "new"
    /\ \A j \in Tasks : j < id => phase[j] # "new"
    /\ IF QueueIsFull(queue)
       THEN /\ handle' = [handle EXCEPT ![id] = Settle(@, "QueueFull")]
            /\ phase' = [phase EXCEPT ![id] = "rejected"]
            /\ UNCHANGED <<queue, activeCount, work, timer, startedAt,
                           started, emitted, timestamp>>
       ELSE IF SignalAborted(id)
       THEN /\ handle' = [handle EXCEPT ![id] = Settle(@, "Cancelled")]
            /\ phase' = [phase EXCEPT ![id] = "rejected"]
            /\ UNCHANGED <<queue, activeCount, work, timer, startedAt,
                           started, emitted, timestamp>>
       ELSE Store(ProcessNext([Sched EXCEPT !.queue = Push(queue, id),
                                            !.timestamp[id] = now,
                                            !.emitted[id] = Append(@, "queued"),
                                            !.phase[id] = "queued"]))
    /\ UNCHANGED <<givenVars, now, nextCleanup, aborted>>

\* The task's abort signal fires.  The signal belongs to a request that has
\* arrived: one already submitted, or the one about to be.  The abortHandler
\* exists only for a task that enqueue accepted.
Abort(id) ==
    /\ ~aborted[id]
    /\ \A j \in Tasks : j < id => phase[j] # "new"
    /\ aborted' = [aborted EXCEPT ![id] = TRUE]
    /\ Store(IF phase[id] \in {"new", "rejected"} THEN Sched
             ELSE AbortHandler(Sched, id))
    /\ UNCHANGED <<givenVars, now, nextCleanup>>

\* task.execute() resolves.  Only a race that is still undecided reacts.
WorkReturns(id) ==
    /\ work[id] = "executing"
    /\ LET s == [Sched EXCEPT !.work[id] = "settled"]
       IN Store(IF phase[id] = "running" THEN RaceSettled(s, id, "Complete")
                ELSE s)
    /\ UNCHANGED <<givenVars, now, nextCleanup, aborted>>

\* task.execute() rejects.
WorkThrows(id) ==
    /\ work[id] = "executing"
    /\ LET s == [Sched EXCEPT !.work[id] = "settled"]
       IN Store(IF phase[id] = "running" THEN RaceSettled(s, id, "Fail")
                ELSE s)
    /\ UNCHANGED <<givenVars, now, nextCleanup, aborted>>

\* The setTimeout armed by processNext fires; it was never cleared, so it
\* also fires after the race was decided by the work.
TimeoutFires(id) ==
    /\ timer[id]
    /\ TimerDue(now, startedAt[id])
    /\ LET s == [Sched EXCEPT !.timer[id] = FALSE, !.startedAt[id] = 0]
       IN Store(IF phase[id] = "running" THEN RaceSettled(s, id, "Timeout")
                ELSE s)
    /\ UNCHANGED <<givenVars, now, nextCleanup, aborted>>

\* One pass of the setInterval callback of startCleanupInterval.
Cleanup ==
    /\ now >= nextCleanup
    /\ LET stale == {queue[i] : i \in 1..Len(queue)} \cap
                    {t \in Tasks : IsStale(now, timestamp[t])}
       IN /\ queue' = Filter(queue, Tasks \ stale)
          /\ handle' = [t \in Tasks |-> IF t \in stale
                                         THEN Settle(handle[t], "Expired")
                                         ELSE handle[t]]
          /\ phase' = [t \in Tasks |-> IF t \in stale THEN "expired"
                                        ELSE phase[t]]
          /\ timestamp' = [t \in Tasks |-> IF t \in stale THEN 0
                                            ELSE timestamp[t]]
          /\ emitted' = [t \in Tasks |->
                            IF t \in stale THEN Append(emitted[t], "expired")
                            ELSE emitted[t]]
    /\ nextCleanup' = nextCleanup + CleanupInterval
    /\ UNCHANGED <<givenVars, activeCount, now, work,
                   aborted, startedAt, timer, started>>

\* The clock advances one unit.  Timers that are due fire before it
\* advances further.
Tick ==
    /\ now < MaxTime
    /\ now < nextCleanup
    /\ \A t \in Tasks : timer[t] => ~TimerDue(now, startedAt[t])
    /\ now' = now + 1
    /\ UNCHANGED <<givenVars, queue, activeCount,
                   nextCleanup, phase, handle, work, aborted, timestamp,
                   startedAt, timer, started, emitted>>

Next ==
    \/ \E id \in Clients : Enqueue(id) /\ UNCHANGED serviceVars
    \/ \E id \in Clients : Abort(id) /\ UNCHANGED serviceVars
    \/ \E id \in Clients : WorkReturns(id) /\ UNCHANGED serviceVars
    \/ \E id \in Clients : WorkThrows(id) /\ UNCHANGED serviceVars
    \/ \E id \in Clients : TimeoutFires(id) /\ UNCHANGED serviceVars
    \/ Cleanup /\ UNCHANGED serviceVars
    \/ Tick /\ UNCHANGED serviceVars

Spec == Init /\ [][Next]_vars

\* A backlog: one configuration with a queue deeper than the slots, clients
\* that stay connected and works that return or hang.
InitBacklog ==
    /\ maxConcurrent = BacklogConcurrent
    /\ maxQueueSize = BacklogQueueSize
    /\ maxSize = MaxSizeArg
    /\ Constructed
    /\ NoInput

NextBacklog ==
    \/ \E id \in BacklogClients : Enqueue(id) /\ UNCHANGED serviceVars
    \/ \E id \in BacklogClients : WorkReturns(id) /\ UNCHANGED serviceVars
    \/ \E id \in BacklogClients : TimeoutFires(id) /\ UNCHANGED serviceVars
    \/ Cleanup /\ UNCHANGED serviceVars
    \/ Tick /\ UNCHANGED serviceVars

SpecBacklog == InitBacklog /\ [][NextBacklog]_vars

\* The same configuration with clients that disconnect and works that hang
\* until their timeout.
NextCancel ==
    \/ \E id \in BacklogClients : Enqueue(id) /\ UNCHANGED serviceVars
    \/ \E id \in BacklogClients : Abort(id) /\ UNCHANGED serviceVars
    \/ \E id \in BacklogClients : TimeoutFires(id) /\ UNCHANGED serviceVars
    \/ Cleanup /\ UNCHANGED serviceVars
    \/ Tick /\ UNCHANGED serviceVars

SpecCancel == InitBacklog /\ [][NextCancel]_vars

\* A burst: every configuration of Spec, and enough clients that stay
\* connected to fill the slots and the queue of each and be turned away.
SpecBurst == Init /\ [][NextBacklog]_vars

\* Submissions stop when the clock shows MaxTime; the clock itself goes on
\* for as long as a timer is armed or a task waits in the queue.
Arrive(id) == now <= MaxTime /\ Enqueue(id)

Elapse ==
    /\ now < MaxTime \/ queue # << >> \/ \E t \in Tasks : timer[t]
    /\ now < nextCleanup
    /\ \A t \in Tasks : timer[t] => ~TimerDue(now, startedAt[t])
    /\ now' = now + 1
    /\ UNCHANGED <<givenVars, queue, activeCount,
                   nextCleanup, phase, handle, work, aborted, timestamp,
                   startedAt, timer, started, emitted>>

NextLive ==
    \/ \E id \in Clients : Arrive(id) /\ UNCHANGED serviceVars
    \/ \E id \in Clients : WorkReturns(id) /\ UNCHANGED serviceVars
    \/ \E id \in Clients : TimeoutFires(id) /\ UNCHANGED serviceVars
    \/ Cleanup /\ UNCHANGED serviceVars
    \/ Elapse /\ UNCHANGED serviceVars

\* Node keeps running timers that are due and keeps the clock going; a work
\* returns or hangs for ever, as it likes.  Clients stay connected.
SpecLive ==
    /\ Init
    /\ [][NextLive]_vars
    /\ WF_vars(Elapse /\ UNCHANGED serviceVars)
    /\ WF_vars(Cleanup /\ UNCHANGED serviceVars)
    /\ \A id \in Clients : WF_vars(TimeoutFires(id) /\ UNCHANGED serviceVars)

\* ----------------------------------------------------------------- cache

\* generateHash: the first 16 hex digits of the SHA-256 of the body; two
\* different bodies of the model have different digests
generateHash(b) == NumBytes + b

\* Map.prototype.has / get: the position of the entry of key h, 0 if none
RECURSIVE IndexOf(_, _)
IndexOf(c, h) ==
    IF c = << >> THEN 0
    ELSE IF c[Len(c)].hash = h THEN Len(c)
         ELSE IndexOf(SubSeq(c, 1, Len(c) - 1), h)

\* Map.prototype.delete
RECURSIVE MapDelete(_, _)
MapDelete(c, h) ==
    IF c = << >> THEN << >>
    ELSE IF Head(c).hash = h THEN MapDelete(Tail(c), h)
         ELSE <<Head(c)>> \o MapDelete(Tail(c), h)

\* mutant: a key that is present keeps its entry
MapSetKeepsFirst(c, e) ==
    IF IndexOf(c, e.hash) = 0 THEN Append(c, e) ELSE c

\* Map.prototype.set: a key that is present keeps its place in the order
MapSet(c, e) ==
    LET i == IndexOf(c, e.hash)
    IN IF i = 0 THEN Append(c, e) ELSE [c EXCEPT ![i] = e]

\* mutant: the comparator is reversed, the newest entry goes
OldestKeyNewest(c) ==
    LET newest == CHOOSE i \in 1..Len(c) :
                      \A j \in 1..Len(c) :
                          \/ c[i].timestamp > c[j].timestamp
                          \/ c[i].timestamp = c[j].timestamp /\ i <= j
    IN c[newest].hash

\* entries sorted by timestamp, element [0], its key: Array.prototype.sort
\* is stable, so of the entries with the smallest timestamp the first in
\* the Map's order is taken
OldestKey(c) ==
    LET oldest == CHOOSE i \in 1..Len(c) :
                      \A j \in 1..Len(c) :
                          \/ c[i].timestamp < c[j].timestamp
                          \/ c[i].timestamp = c[j].timestamp /\ i <= j
    IN c[oldest].hash

\* mutant: the capacity test is off by one
CacheIsFullLate(c) == Len(c) > maxSize

\* set: this.cache.size >= this.maxSize
CacheIsFull(c) == Len(c) >= maxSize

\* mutant: an entry expires as soon as its age reaches ttl
IsExpiredEarly(t, ts) == t - ts >= ttl

\* get and the sweep: Date.now() - entry.timestamp > this.ttl
IsExpired(t, ts) == t - ts > ttl

\* set(buffer, data) at time t: the cache it leaves
SetCache(c, b, v, t) ==
    MapSet(IF CacheIsFull(c) THEN MapDelete(c, OldestKey(c)) ELSE c,
           [hash |-> generateHash(b), data |-> v, timestamp |-> t])

\* get(buffer) at time t: the value it returns
GetValue(c, b, t) ==
    LET i == IndexOf(c, generateHash(b))
    IN IF i = 0 THEN NoValue
       ELSE IF IsExpired(t, c[i].timestamp) THEN NoValue
       ELSE c[i].data

\* get(buffer) at time t: the cache it leaves
GetCache(c, b, t) ==
    LET i == IndexOf(c, generateHash(b))
    IN IF i # 0 /\ IsExpired(t, c[i].timestamp)
       THEN MapDelete(c, generateHash(b))
       ELSE c

\* the callback of the cache's setInterval at time t: the cache it leaves
RECURSIVE SweepCache(_, _)
SweepCache(c, t) ==
    IF c = << >> THEN << >>
    ELSE IF IsExpired(t, Head(c).timestamp) THEN SweepCache(Tail(c), t)
         ELSE <<Head(c)>> \o SweepCache(Tail(c), t)

schedVars == <<givenVars, queue, activeCount, nextCleanup,
               phase, handle, work, aborted, timestamp, startedAt, timer,
               started, emitted>>

\* cacheManager.set(buffer, data)
CacheSet(b, v) ==
    /\ cache' = SetCache(cache, b, v, now)
    /\ UNCHANGED <<schedVars, now, maxSize, nextSweep, got, handlerVars>>

\* cacheManager.get(buffer)
CacheGet(b) ==
    /\ got' = [hash |-> generateHash(b), data |-> GetValue(cache, b, now),
               at |-> now]
    /\ cache' = GetCache(cache, b, now)
    /\ UNCHANGED <<schedVars, now, maxSize, nextSweep, handlerVars>>

\* cacheManager.clear()
CacheClear ==
    /\ cache # << >>
    /\ cache' = << >>
    /\ UNCHANGED <<schedVars, now, maxSize, nextSweep, got, handlerVars>>

\* one pass of the setInterval callback of the cache
CacheSweep ==
    /\ now >= nextSweep
    /\ cache' = SweepCache(cache, now)
    /\ nextSweep' = nextSweep + SweepInterval
    /\ UNCHANGED <<schedVars, now, maxSize, got, handlerVars>>

\* the clock advances one unit; a sweep that is due runs first
CacheTick ==
    /\ now < MaxTime
    /\ now < nextSweep
    /\ now' = now + 1
    /\ UNCHANGED <<schedVars, cacheVars, handlerVars>>

\* The cache on its own: any maxSize from 1 on, callers that set, get and
\* clear as they like.
InitCache ==
    /\ maxConcurrent = BacklogConcurrent
    /\ maxQueueSize = BacklogQueueSize
    /\ maxSize \in 1..MaxSizeArg
    /\ Constructed
    /\ NoInput

NextCache ==
    \/ \E b \in Bytes, v \in Values : CacheSet(b, v) /\ UNCHANGED stageVars
    \/ \E b \in Bytes : CacheGet(b) /\ UNCHANGED stageVars
    \/ CacheClear /\ UNCHANGED stageVars
    \/ CacheSweep /\ UNCHANGED stageVars
    \/ CacheTick /\ UNCHANGED stageVars

SpecCache == InitCache /\ [][NextCache]_vars

\* --------------------------------------------------------------- handler

\* the value the work of task id returns: the result of that pipeline run
Result(id) == id

\* mutant: the handler never takes the cached value
CacheHitNever(v) == FALSE

\* POST: if (cachedResult)
CacheHit(v) == v # NoValue

\* mutant: the handler goes on to cacheManager.set whatever the outcome
AwaitThrowsNever(h) == FALSE

\* POST: await queueManager.enqueue(...) throws unless the promise resolved
AwaitThrows(h) == h # "Complete"

\* mutant: the catch block answers every error with 500
ErrorStatusAlways500(h) == 500

\* POST, catch: 499 for an error whose message includes 'abort', else 500
ErrorStatus(h) == IF h = "Cancelled" THEN 499 ELSE 500

Response(st, d, c) == [status |-> st, data |-> d, cached |-> c]

\* the request is answered without a task: no call of enqueue
Bypass(id) ==
    /\ phase' = [phase EXCEPT ![id] = "bypassed"]
    /\ UNCHANGED <<givenVars, queue, activeCount, now,
                   nextCleanup, handle, work, aborted, timestamp, startedAt,
                   timer, started, emitted>>

\* POST from the moment the body b of request id has been read to the
\* await of enqueue: the abort test, the cache lookup, the call of enqueue.
Submit(id, b) ==
    /\ phase[id] = "new"
    /\ \A j \in Tasks : j < id => phase[j] # "new"
    /\ bytes' = [bytes EXCEPT ![id] = b]
    /\ IF aborted[id]
       THEN /\ resp' = [resp EXCEPT ![id] = Response(499, NoValue, FALSE)]
            /\ cache' = cache
            /\ Bypass(id)
       ELSE LET v == GetValue(cache, b, now)
            IN /\ cache' = GetCache(cache, b, now)
               /\ IF CacheHit(v)
                  THEN /\ resp' = [resp EXCEPT ![id] = Response(200, v, TRUE)]
                       /\ Bypass(id)
                  ELSE /\ resp' = resp
                       /\ Enqueue(id)
    /\ UNCHANGED <<maxSize, nextSweep, got>>

\* POST after the await of enqueue: cacheManager.set and the 200 response,
\* or the catch block.
Respond(id) ==
    /\ resp[id].status = 0
    /\ handle[id] # "pending"
    /\ IF AwaitThrows(handle[id])
       THEN /\ cache' = cache
            /\ resp' = [resp EXCEPT
                           ![id] = Response(ErrorStatus(handle[id]), NoValue,
                                            FALSE)]
       ELSE /\ cache' = SetCache(cache, bytes[id], Result(id), now)
            /\ resp' = [resp EXCEPT ![id] = Response(200, Result(id), FALSE)]
    /\ UNCHANGED <<schedVars, now, maxSize, nextSweep, got, bytes>>

\* the continuations of POST that are due: they run in the microtask drain
\* of the turn that settled their promise, before any other event
Owed == {t \in Clients : resp[t].status = 0 /\ handle[t] # "pending"}

\* The service: the handler in front of a scheduler of one slot and a cache
\* of one entry.  A client can disconnect until its response is sent.
InitHandler ==
    /\ maxConcurrent = BacklogConcurrent
    /\ maxQueueSize \in 1..MaxQueueSizeArg
    /\ maxSize = 1
    /\ Constructed
    /\ NoInput

\* no continuation is due
Quiet == Owed = {}

\* Bodies are told apart only by being equal or not: a request uploads a
\* body seen before, or the next new one.
NextUploads ==
    {b \in Uploads : \A c \in Uploads : c < b => \E t \in Clients : bytes[t] = c}

NextHandler ==
    \/ \E id \in Clients : Respond(id) /\ UNCHANGED stageVars
    \/ \E id \in Clients, b \in NextUploads :
          Quiet /\ Submit(id, b) /\ UNCHANGED stageVars
    \/ \E id \in Clients :
          Quiet /\ resp[id].status = 0 /\ Abort(id) /\ UNCHANGED serviceVars
    \/ \E id \in Clients : Quiet /\ WorkReturns(id) /\ UNCHANGED serviceVars
    \/ \E id \in Clients : Quiet /\ WorkThrows(id) /\ UNCHANGED serviceVars
    \/ \E id \in Clients : Quiet /\ TimeoutFires(id) /\ UNCHANGED serviceVars
    \/ Quiet /\ Cleanup /\ UNCHANGED serviceVars
    \/ Quiet /\ CacheSweep /\ UNCHANGED stageVars
    \/ Quiet /\ Tick /\ now < nextSweep /\ UNCHANGED serviceVars

SpecHandler == InitHandler /\ [][NextHandler]_vars

\* ------------------------------------------------------- post-processing

\* the probabilities a speaker class of a frame takes: at the threshold,
\* and two different values above it
ProbLevels == {threshold, threshold + 1, threshold + 2}

RECURSIVE SumFrom(_, _)
\* p[k] + ... + p[Len(p)]
SumFrom(p, k) == IF k > Len(p) THEN 0 ELSE p[k] + SumFrom(p, k + 1)

\* softmax output of one frame: one probability per class, summing to one
FrameProbs ==
    {p \in [1..NumClasses -> 0..ProbUnits] :
        /\ \A k \in 2..NumClasses : p[k] \in ProbLevels
        /\ SumFrom(p, 1) = ProbUnits}

\* mutant: a class as probable as the best so far replaces it
ExceedsOrEquals(p, m) == p >= m

\* if (probs[cls] > maxProb)
Exceeds(p, m) == p > m

RECURSIVE ActiveFrom(_, _, _, _)
\* for (cls = 1; cls < numClasses; cls++): probs[cls] is p[cls + 1]
ActiveFrom(p, cls, maxProb, activeSpeaker) ==
    IF cls >= Len(p)
    THEN activeSpeaker
    ELSE IF Exceeds(p[cls + 1], maxProb)
         THEN ActiveFrom(p, cls + 1, p[cls + 1], cls - 1)
         ELSE ActiveFrom(p, cls + 1, maxProb, activeSpeaker)

\* maxProb = threshold; activeSpeaker = -1; the class loop
ActiveSpeaker(p) == ActiveFrom(p, 1, threshold, -1)

\* mutant: a run of any length is emitted
LongEnoughAlways(d) == TRUE

\* if (duration >= 0.5)
LongEnough(d) == d >= MinDuration

\* the run that ends at time t is pushed if there is one and it is long
\* enough
CloseRun(st, t) ==
    IF st.currentSpeaker >= 0 /\ LongEnough(t - st.segmentStart)
    THEN [st EXCEPT !.segments =
                       Append(@, [startTime |-> st.segmentStart,
                                  endTime |-> t,
                                  speaker |-> st.currentSpeaker])]
    ELSE st

\* mutant: the start of the previous run is kept
OpenRunKeepsStart(st, activeSpeaker, t) ==
    [st EXCEPT !.currentSpeaker = activeSpeaker]

\* a run of activeSpeaker starts at time t, or non-speech does
OpenRun(st, activeSpeaker, t) ==
    IF activeSpeaker >= 0
    THEN [st EXCEPT !.segmentStart = t, !.currentSpeaker = activeSpeaker]
    ELSE [st EXCEPT !.currentSpeaker = -1]

RECURSIVE FrameLoop(_, _, _, _)
\* for (frame = 0; frame < numFrames; frame++), from frame on
FrameLoop(data, frameStep, frame, st) ==
    IF frame >= Len(data)
    THEN st
    ELSE LET activeSpeaker == ActiveSpeaker(data[frame + 1])
             t == frame * frameStep
         IN FrameLoop(data, frameStep, frame + 1,
                      IF activeSpeaker # st.currentSpeaker
                      THEN OpenRun(CloseRun(st, t), activeSpeaker, t)
                      ELSE st)

\* postProcessSegments(results, audioDuration)
postProcessSegments(data, duration) ==
    CloseRun(FrameLoop(data, duration \div Len(data), 0,
                       [currentSpeaker |-> -1, segmentStart |-> 0,
                        segments |-> << >>]),
             duration).segments

\* the inference output of one audio: numFrames frames, and a duration
\* that makes the frame step a whole number of quarters of a second
InitPost ==
    /\ maxConcurrent = BacklogConcurrent
    /\ maxQueueSize = BacklogQueueSize
    /\ maxSize = MaxSizeArg
    /\ Constructed
    /\ \E n \in 1..MaxFrames :
          /\ outputData \in [1..n -> FrameProbs]
          /\ \E frameStep \in 1..MaxFrameStep : audioDuration = n * frameStep
    /\ segments = << >>
    /\ processed = FALSE
    /\ speakerSegments = << >>
    /\ result = [segments |-> << >>, speakers |-> << >>, duration |-> 0,
                 totalSpeakers |-> 0, method |-> "none"]

PostProcess ==
    /\ ~processed
    /\ segments' = postProcessSegments(outputData, audioDuration)
    /\ processed' = TRUE
    /\ UNCHANGED <<outputData, audioDuration, resultVars, pipelineVars,
                   schedVars, now, cacheVars, handlerVars>>

NextPost == PostProcess

SpecPost == InitPost /\ [][NextPost]_vars

\* ------------------------------------------------------- result assembly

\* the colour table of the speakers summary
Palette == <<"#276b4d", "#518764", "#76a483", "#416e54", "#b8d6b6">>

\* the i-th segment of a list, spoken by spk: segments follow one another
\* and last one or two units
SegmentAt(i, spk) ==
    [startTime |-> 3 * (i - 1),
     endTime |-> 3 * (i - 1) + 1 + (spk % 2),
     speaker |-> spk]

RECURSIVE Distinct(_)
\* [...new Set(list)]: the members in the order of their first occurrence
Distinct(list) ==
    IF list = << >>
    THEN << >>
    ELSE LET front == Distinct(SubSeq(list, 1, Len(list) - 1))
             last == list[Len(list)]
         IN IF \E i \in 1..Len(front) : front[i] = last
            THEN front
            ELSE Append(front, last)

\* list.map(s => s.speaker)
SpeakerOf(list) == [i \in 1..Len(list) |-> list[i].speaker]

\* speakerId.toString(): the ids of the model have one digit
IdString(speakerId) == <<speakerId>>

\* the template string of a display name
DisplayName(number) == [label |-> "Speaker", number |-> number]

RECURSIVE TotalDuration(_)
\* segments.reduce((sum, s) => sum + (s.endTime - s.startTime), 0)
TotalDuration(list) ==
    IF list = << >>
    THEN 0
    ELSE TotalDuration(SubSeq(list, 1, Len(list) - 1))
         + (list[Len(list)].endTime - list[Len(list)].startTime)

\* speakerSegments.filter(s => s.speaker === speakerId)
SegmentsOf(list, speakerId) ==
    LET Spoken(s) == s.speaker = speakerId IN SelectSeq(list, Spoken)

\* mutant: the palette is indexed by the speaker id
ColorOfId(speakerId, index) == Palette[(speakerId % PaletteModulus) + 1]

\* [...][index % 5], index counted from 0
ColorOf(speakerId, index) == Palette[(index % PaletteModulus) + 1]

\* the callback of speakerIds.map, index counted from 0
SpeakerSummary(list, speakerId, index) ==
    [id |-> IdString(speakerId),
     name |-> DisplayName(index + 1),
     segmentCount |-> Len(SegmentsOf(list, speakerId)),
     totalDuration |-> TotalDuration(SegmentsOf(list, speakerId)),
     color |-> ColorOf(speakerId, index)]

\* speakerIds.indexOf(speakerId), counted from 0
SpeakerIndex(speakerIds, speakerId) ==
    (CHOOSE i \in 1..Len(speakerIds) :
        /\ speakerIds[i] = speakerId
        /\ \A j \in 1..(i - 1) : speakerIds[j] # speakerId) - 1

\* the callback of speakerSegments.map
SegmentView(speakerIds, segment) ==
    [id |-> <<segment.speaker, segment.startTime, segment.endTime>>,
     speaker |-> DisplayName(SpeakerIndex(speakerIds, segment.speaker) + 1),
     startTime |-> segment.startTime,
     endTime |-> segment.endTime,
     duration |-> segment.endTime - segment.startTime]

RECURSIVE MaxEndTime(_)
\* Math.max(...speakerSegments.map(s => s.endTime)), or 0 for no segment
MaxEndTime(list) ==
    IF list = << >>
    THEN 0
    ELSE LET rest == MaxEndTime(SubSeq(list, 1, Len(list) - 1))
             e == list[Len(list)].endTime
         IN IF e > rest THEN e ELSE rest

\* the DiarizationResult the work returns
BuildResult(list) ==
    LET speakerIds == Distinct(SpeakerOf(list))
        speakers == [k \in 1..Len(speakerIds) |->
                        SpeakerSummary(list, speakerIds[k], k - 1)]
    IN [segments |-> [i \in 1..Len(list) |-> SegmentView(speakerIds, list[i])],
        speakers |-> speakers,
        duration |-> MaxEndTime(list),
        totalSpeakers |-> Len(speakers),
        method |-> "PyAnnote ONNX"]

InitResult ==
    /\ maxConcurrent = BacklogConcurrent
    /\ maxQueueSize = BacklogQueueSize
    /\ maxSize = MaxSizeArg
    /\ Constructed
    /\ outputData = << >>
    /\ audioDuration = 0
    /\ segments = << >>
    /\ processed = FALSE
    /\ \E n \in 0..MaxSegments :
          \E ids \in [1..n -> 0..(NumSpeakerIds - 1)] :
             speakerSegments = [i \in 1..n |-> SegmentAt(i, ids[i])]
    /\ result = [segments |-> << >>, speakers |-> << >>, duration |-> 0,
                 totalSpeakers |-> 0, method |-> "none"]

Assemble ==
    /\ result.method = "none"
    /\ result' = BuildResult(speakerSegments)
    /\ UNCHANGED <<speakerSegments, postVars, pipelineVars, schedVars, now,
                   cacheVars, handlerVars>>

NextResult == Assemble

SpecResult == InitResult /\ [][NextResult]_vars

\* ------------------------------------------------------------ separation

\* the requests of the separation handler
Callers == 1..NumCalls

\* input-<salt>.wav, segment-<salt>-<i>.wav, the files the separation
\* subprocess writes into separated-<salt>-<i>, final-separated-<salt>-<i>
\* .wav: the salt of a path is the call that chose it
InputPath(r) == <<"input", r, 0>>
SegmentPath(r, i) == <<"segment", r, i>>
OutputPath(r, i) == <<"output", r, i>>
FinalPath(r, i) == <<"final", r, i>>

\* the fields of the pipeline and the position of every work, as a record
Pipe ==
    [processing |-> processing, tempFiles |-> tempFiles, disk |-> disk,
     pc |-> pc, seg |-> seg, clips |-> clips]

StorePipe(s) ==
    /\ processing' = s.processing
    /\ tempFiles' = s.tempFiles
    /\ disk' = s.disk
    /\ pc' = s.pc
    /\ seg' = s.seg
    /\ clips' = s.clips

\* mutant: the flag is not looked at
BusyNever(p) == FALSE

\* separateSpeaker: if (this.processing)
Busy(p) == p

\* cleanupTempFiles: every tracked path is unlinked, the set is cleared
cleanupTempFiles(s) ==
    [s EXCEPT !.disk = @ \ s.tempFiles, !.tempFiles = {}]

\* mutant: no finally block, the flag stays set when the call throws
ThrowKeepsFlag(s, r, kind) == [cleanupTempFiles(s) EXCEPT !.pc[r] = kind]

\* separateSpeaker, catch and finally: the error kind reaches the work
Throw(s, r, kind) ==
    [cleanupTempFiles(s) EXCEPT !.processing = FALSE, !.pc[r] = kind]

\* cleanup(segments): each clip is unlinked and leaves the tracked set
cleanup(s, r) ==
    [s EXCEPT !.disk = @ \ s.clips[r], !.tempFiles = @ \ s.clips[r]]

\* separateSpeaker returned and the work goes on: the abort test, then the
\* call of createZipArchive
AfterSeparate(s, r, ab) ==
    IF ab
    THEN [cleanup(s, r) EXCEPT !.pc[r] = "postcancelled"]
    ELSE [s EXCEPT !.pc[r] = "zipping"]

\* separateSpeaker from the head of the loop with index i: the abort tests
\* and the start of ffmpeg, or the end of the loop and the return
LoopHead(s, r, i, ab) ==
    IF i >= NumSegments
    THEN AfterSeparate([s EXCEPT !.disk = @ \ {InputPath(r)},
                                 !.tempFiles = @ \ {InputPath(r)},
                                 !.processing = FALSE],
                       r, ab)
    ELSE IF ab
         THEN Throw(cleanupTempFiles(s), r, "sepcancelled")
         ELSE [s EXCEPT !.tempFiles = @ \cup {SegmentPath(r, i)},
                        !.seg[r] = i,
                        !.pc[r] = "extracting"]

\* the kind of the error of a subprocess that was killed or failed
ErrorKind(ab) == IF ab THEN "sepcancelled" ELSE "sepfailed"

\* the scheduler calls the work: the abort test, then initialize()
WorkStarts(r) ==
    /\ pc[r] = "idle"
    /\ pc' = [pc EXCEPT ![r] = IF aborted[r] THEN "precancelled"
                                ELSE "initializing"]
    /\ UNCHANGED <<processing, tempFiles, disk, seg, clips>>

\* initialize() threw: the dependencies are missing
InitializeFails(r) ==
    /\ pc[r] = "initializing"
    /\ pc' = [pc EXCEPT ![r] = "initfailed"]
    /\ UNCHANGED <<processing, tempFiles, disk, seg, clips>>

\* initialize() returned and the work calls separateSpeaker, which throws
\* at once or takes the flag and awaits its own initialize()
CallSeparate(r) ==
    /\ pc[r] = "initializing"
    /\ IF Busy(processing)
       THEN /\ pc' = [pc EXCEPT ![r] = "busy"]
            /\ processing' = processing
       ELSE /\ pc' = [pc EXCEPT ![r] = "entered"]
            /\ processing' = TRUE
    /\ UNCHANGED <<tempFiles, disk, seg, clips>>

\* separateSpeaker after initialize(): the abort test, the input path is
\* tracked and writeFile starts
Entered(r) ==
    /\ pc[r] = "entered"
    /\ StorePipe(IF aborted[r]
                 THEN Throw(Pipe, r, "sepcancelled")
                 ELSE [Pipe EXCEPT !.tempFiles = @ \cup {InputPath(r)},
                                   !.pc[r] = "writing"])

\* writeFile returned: the loop starts
InputWritten(r) ==
    /\ pc[r] = "writing"
    /\ StorePipe(LoopHead([Pipe EXCEPT !.disk = @ \cup {InputPath(r)}],
                          r, 0, aborted[r]))

\* writeFile threw
WriteFails(r) ==
    /\ pc[r] = "writing"
    /\ StorePipe(Throw(Pipe, r, "sepfailed"))

\* ffmpeg exited with the slice written: the abort test, then the
\* separation subprocess starts
SegmentExtracted(r) ==
    /\ pc[r] = "extracting"
    /\ LET s == [Pipe EXCEPT !.disk = @ \cup {SegmentPath(r, seg[r])}]
       IN StorePipe(IF aborted[r]
                    THEN Throw(cleanupTempFiles(s), r, "sepcancelled")
                    ELSE [s EXCEPT !.pc[r] = "separating"])

\* ffmpeg failed or was killed by the signal, leaving a part of the slice
ExtractFails(r) ==
    /\ pc[r] = "extracting"
    /\ StorePipe(Throw([Pipe EXCEPT !.disk = @ \cup {SegmentPath(r, seg[r])}],
                       r, ErrorKind(aborted[r])))

\* the separation subprocess exited with its outputs written and a
\* response naming them: the final path is tracked and copyFile starts
Separated(r) ==
    /\ pc[r] = "separating"
    /\ StorePipe([Pipe EXCEPT !.disk = @ \cup {OutputPath(r, seg[r])},
                              !.tempFiles = @ \cup {FinalPath(r, seg[r])},
                              !.pc[r] = "copying"])

\* the separation subprocess failed, ran into its timeout or was killed by
\* the signal, or its response could not be used; it may have written its
\* outputs
SeparateFails(r, written) ==
    /\ pc[r] = "separating"
    /\ StorePipe(Throw([Pipe EXCEPT
                           !.disk = IF written
                                    THEN @ \cup {OutputPath(r, seg[r])}
                                    ELSE @],
                       r, ErrorKind(aborted[r])))

\* copyFile returned: the slice and the outputs are unlinked, the clip is
\* pushed, and the loop goes on
Copied(r) ==
    /\ pc[r] = "copying"
    /\ LET i == seg[r]
           s == [Pipe EXCEPT
                    !.disk = (@ \cup {FinalPath(r, i)})
                             \ {SegmentPath(r, i), OutputPath(r, i)},
                    !.tempFiles = @ \ {SegmentPath(r, i)},
                    !.clips[r] = @ \cup {FinalPath(r, i)}]
       IN StorePipe(LoopHead(s, r, i + 1, aborted[r]))

\* copyFile threw
CopyFails(r) ==
    /\ pc[r] = "copying"
    /\ StorePipe(Throw(Pipe, r, "sepfailed"))

\* createZipArchive resolved: cleanup(separatedSegments), and the work
\* returns the archive
Zipped(r) ==
    /\ pc[r] = "zipping"
    /\ StorePipe([cleanup(Pipe, r) EXCEPT !.pc[r] = "returned"])

\* createZipArchive rejected: the work throws
ZipFails(r) ==
    /\ pc[r] = "zipping"
    /\ StorePipe([Pipe EXCEPT !.pc[r] = "zipfailed"])

\* the positions at which a work has finished
Finished ==
    {"returned", "busy", "initfailed", "precancelled", "sepfailed",
     "sepcancelled", "postcancelled", "zipfailed"}

\* the client of r disconnects while its work has not finished
Disconnect(r) ==
    /\ ~aborted[r]
    /\ pc[r] \notin Finished
    /\ aborted' = [aborted EXCEPT ![r] = TRUE]
    /\ UNCHANGED pipelineVars

\* what a step of a work leaves alone
workFrame ==
    <<givenVars, queue, activeCount, now, nextCleanup,
      phase, handle, work, aborted, timestamp, startedAt, timer, started,
      emitted, cacheVars, handlerVars, postVars, resultVars>>

InitSeparate ==
    /\ maxConcurrent = MaxConcurrentArg
    /\ maxQueueSize = MaxQueueSizeArg
    /\ maxSize = MaxSizeArg
    /\ Constructed
    /\ NoInput

NextSeparate ==
    \/ \E r \in Callers : WorkStarts(r) /\ UNCHANGED workFrame
    \/ \E r \in Callers : InitializeFails(r) /\ UNCHANGED workFrame
    \/ \E r \in Callers : CallSeparate(r) /\ UNCHANGED workFrame
    \/ \E r \in Callers : Entered(r) /\ UNCHANGED workFrame
    \/ \E r \in Callers : InputWritten(r) /\ UNCHANGED workFrame
    \/ \E r \in Callers : WriteFails(r) /\ UNCHANGED workFrame
    \/ \E r \in Callers : SegmentExtracted(r) /\ UNCHANGED workFrame
    \/ \E r \in Callers : ExtractFails(r) /\ UNCHANGED workFrame
    \/ \E r \in Callers : Separated(r) /\ UNCHANGED workFrame
    \/ \E r \in Callers, written \in BOOLEAN :
          SeparateFails(r, written) /\ UNCHANGED workFrame
    \/ \E r \in Callers : Copied(r) /\ UNCHANGED workFrame
    \/ \E r \in Callers : CopyFails(r) /\ UNCHANGED workFrame
    \/ \E r \in Callers : Zipped(r) /\ UNCHANGED workFrame
    \/ \E r \in Callers : ZipFails(r) /\ UNCHANGED workFrame
    \/ \E r \in Callers :
          Disconnect(r)
          /\ UNCHANGED <<givenVars, queue, activeCount,
                         now, nextCleanup, phase, handle, work, timestamp,
                         startedAt, timer, started, emitted, cacheVars,
                         handlerVars,
                         postVars, resultVars>>

SpecSeparate == InitSeparate /\ [][NextSeparate]_vars

\* ----------------------------------------------------------- diarization

\* output-<salt>_16k.wav of ensureAudio16kHz
ConvertedPath(r) == <<"converted", r, 0>>

\* the scheduler has called the work of r and the work awaits initialize():
\* execute() runs the work up to there in the turn that admitted the task
Awaited(r) == work[r] = "executing" /\ pc[r] = "idle"

\* initialize() threw: the model files are missing
ModelsMissing(r) ==
    /\ Awaited(r)
    /\ pc' = [pc EXCEPT ![r] = "initfailed"]
    /\ WorkThrows(r)
    /\ UNCHANGED <<processing, tempFiles, disk, seg, clips>>

\* initialize() returned and the work calls processAudio, which throws at
\* once or takes the flag and awaits its own initialize()
CallProcess(r) ==
    /\ Awaited(r)
    /\ IF Busy(processing)
       THEN /\ pc' = [pc EXCEPT ![r] = "busy"]
            /\ processing' = processing
            /\ WorkThrows(r)
       ELSE /\ pc' = [pc EXCEPT ![r] = "entered"]
            /\ processing' = TRUE
            /\ UNCHANGED <<schedVars, now>>
    /\ UNCHANGED <<tempFiles, disk, seg, clips>>

\* processAudio after initialize(): the abort tests, both paths of
\* ensureAudio16kHz are tracked and writeFile starts
BeginConvert(r) ==
    /\ pc[r] = "entered"
    /\ IF aborted[r]
       THEN /\ StorePipe(Throw(Pipe, r, "cancelled"))
            /\ WorkThrows(r)
       ELSE /\ StorePipe([Pipe EXCEPT
                             !.tempFiles = @ \cup {InputPath(r),
                                                   ConvertedPath(r)},
                             !.pc[r] = "writing"])
            /\ UNCHANGED <<schedVars, now>>

\* writeFile returned: the abort test, then ffmpeg starts
AudioWritten(r) ==
    /\ pc[r] = "writing"
    /\ LET s == [Pipe EXCEPT !.disk = @ \cup {InputPath(r)}]
       IN IF aborted[r]
          THEN /\ StorePipe(Throw(cleanupTempFiles(s), r, "cancelled"))
               /\ WorkThrows(r)
          ELSE /\ StorePipe([s EXCEPT !.pc[r] = "converting"])
               /\ UNCHANGED <<schedVars, now>>

\* writeFile threw
AudioWriteFails(r) ==
    /\ pc[r] = "writing"
    /\ StorePipe(Throw(Pipe, r, "writefailed"))
    /\ WorkThrows(r)

\* ffmpeg exited with the converted file written: the input is unlinked,
\* the abort tests pass or throw, the diarization runs to its end without
\* yielding, and the unlink of the converted file starts
Converted(r) ==
    /\ pc[r] = "converting"
    /\ LET s == [Pipe EXCEPT
                    !.disk = (@ \cup {ConvertedPath(r)}) \ {InputPath(r)},
                    !.tempFiles = @ \ {InputPath(r)}]
       IN IF aborted[r]
          THEN /\ StorePipe(Throw(cleanupTempFiles(s), r, "cancelled"))
               /\ WorkThrows(r)
          ELSE /\ StorePipe([s EXCEPT !.pc[r] = "unlinking"])
               /\ UNCHANGED <<schedVars, now>>

\* ffmpeg failed or was killed by the signal, leaving a part of its output
ConvertFails(r) ==
    /\ pc[r] = "converting"
    /\ StorePipe(Throw(cleanupTempFiles(
                          [Pipe EXCEPT !.disk = @ \cup {ConvertedPath(r)}]),
                       r, IF aborted[r] THEN "cancelled" ELSE "convertfailed"))
    /\ WorkThrows(r)

\* the converted file is unlinked and processAudio returns; the work tests
\* the signal and throws, or builds the result and returns it
ProcessReturns(r) ==
    /\ pc[r] = "unlinking"
    /\ StorePipe([Pipe EXCEPT
                     !.disk = @ \ {ConvertedPath(r)},
                     !.tempFiles = @ \ {ConvertedPath(r)},
                     !.processing = FALSE,
                     !.pc[r] = IF aborted[r] THEN "postcancelled"
                               ELSE "returned"])
    /\ IF aborted[r] THEN WorkThrows(r) ELSE WorkReturns(r)

\* what a step of the diarization work leaves alone
diarizeFrame == <<cacheVars, handlerVars, postVars, resultVars>>

\* The diarization service with its pipeline: the handler in front of the
\* scheduler, works that run processAudio, clients that disconnect.
InitDiarize ==
    /\ maxConcurrent \in 1..MaxConcurrentArg
    /\ maxQueueSize = MaxQueueSizeArg
    /\ maxSize = 1
    /\ Constructed
    /\ NoInput

NextDiarize ==
    \/ \E r \in Callers : Respond(r) /\ UNCHANGED stageVars
    \/ \E r \in Callers, b \in NextUploads :
          Quiet /\ Submit(r, b) /\ UNCHANGED stageVars
    \/ \E r \in Callers :
          Quiet /\ resp[r].status = 0 /\ Abort(r) /\ UNCHANGED serviceVars
    \/ \E r \in Callers : Quiet /\ ModelsMissing(r) /\ UNCHANGED diarizeFrame
    \/ \E r \in Callers : Quiet /\ CallProcess(r) /\ UNCHANGED diarizeFrame
    \/ \E r \in Callers : Quiet /\ BeginConvert(r) /\ UNCHANGED diarizeFrame
    \/ \E r \in Callers : Quiet /\ AudioWritten(r) /\ UNCHANGED diarizeFrame
    \/ \E r \in Callers : Quiet /\ AudioWriteFails(r) /\ UNCHANGED diarizeFrame
    \/ \E r \in Callers : Quiet /\ Converted(r) /\ UNCHANGED diarizeFrame
    \/ \E r \in Callers : Quiet /\ ConvertFails(r) /\ UNCHANGED diarizeFrame
    \/ \E r \in Callers : Quiet /\ ProcessReturns(r) /\ UNCHANGED diarizeFrame

SpecDiarize == InitDiarize /\ [][NextDiarize]_vars

\* -------------------------------------------------------------- accessor

\* mutant: getInstance constructs a scheduler on every call
HasInstanceNever(i) == FALSE

\* getInstance: QueueManager.instance is set
HasInstance(i) == i # 0

\* the three arguments of getInstance, which the constructor stores in the
\* readonly fields
Config(mc, mq, tt) ==
    [maxConcurrent |-> mc, maxQueueSize |-> mq, taskTimeout |-> tt]

\* QueueManager.getInstance(maxConcurrent, maxQueueSize, taskTimeout): the
\* constructor runs if no instance is set (field initialisers, the three
\* readonly fields, startCleanupInterval); the instance is returned
GetInstance(mc, mq, tt) ==
    /\ Len(calls) < NumGets
    /\ IF HasInstance(instance)
       THEN UNCHANGED <<instance, maxConcurrent, maxQueueSize, taskTimeout,
                        queue, activeCount, nextCleanup>>
       ELSE /\ instance' = instance + 1
            /\ queue' = << >>
            /\ activeCount' = 0
            /\ maxConcurrent' = mc
            /\ maxQueueSize' = mq
            /\ taskTimeout' = tt
            /\ nextCleanup' = now + CleanupInterval
    /\ calls' = Append(calls, [args |-> Config(mc, mq, tt),
                               returned |-> instance'])
    /\ UNCHANGED <<taskId, now, phase, handle, work, aborted, timestamp,
                   startedAt, timer, started, emitted>>

\* The process before any module has called getInstance: no scheduler
\* exists, its fields have no value yet.
InitInstance ==
    /\ instance = 0
    /\ calls = << >>
    /\ taskId = [t \in Tasks |-> t]
    /\ maxConcurrent = 0
    /\ maxQueueSize = 0
    /\ taskTimeout = 0
    /\ maxSize = MaxSizeArg
    /\ Fresh
    /\ NoInput

\* Modules and the health handler call getInstance with arguments of their
\* own; handlers submit tasks to the instance they were given.
NextInstance ==
    \/ \E mc \in 1..MaxConcurrentArg, mq \in 1..MaxQueueSizeArg,
          tt \in 1..TaskTimeoutArg :
          GetInstance(mc, mq, tt) /\ UNCHANGED serviceVars
    \/ \E id \in Callers :
          HasInstance(instance) /\ Enqueue(id) /\ UNCHANGED serviceVars
    \/ \E id \in Callers : WorkReturns(id) /\ UNCHANGED serviceVars

SpecInstance == InitInstance /\ [][NextInstance]_vars

\* ------------------------------------------------------- return to idle

\* One slot and a queue behind it; clients that disconnect, works that
\* return, throw or hang; submissions stop when the clock shows MaxTime.
InitIdle ==
    /\ maxConcurrent = BacklogConcurrent
    /\ maxQueueSize = MaxQueueSizeArg
    /\ maxSize = MaxSizeArg
    /\ Constructed
    /\ NoInput

NextIdle ==
    \/ \E id \in Clients : Arrive(id) /\ UNCHANGED serviceVars
    \/ \E id \in Clients : Abort(id) /\ UNCHANGED serviceVars
    \/ \E id \in Clients : WorkReturns(id) /\ UNCHANGED serviceVars
    \/ \E id \in Clients : WorkThrows(id) /\ UNCHANGED serviceVars
    \/ \E id \in Clients : TimeoutFires(id) /\ UNCHANGED serviceVars
    \/ Cleanup /\ UNCHANGED serviceVars
    \/ Elapse /\ UNCHANGED serviceVars

\* Node keeps running timers that are due and keeps the clock going; works
\* and clients do as they like.
SpecIdle ==
    /\ InitIdle
    /\ [][NextIdle]_vars
    /\ WF_vars(Elapse /\ UNCHANGED serviceVars)
    /\ WF_vars(Cleanup /\ UNCHANGED serviceVars)
    /\ \A id \in Clients : WF_vars(TimeoutFires(id) /\ UNCHANGED serviceVars)

\* -------------------------------------------------------------- task ids

\* The scheduler used by callers that choose the task ids themselves: any
\* id of 1..NumIds for each task, so two tasks may carry the same id (the
\* ids are named in the order of their first use).  One slot and a queue
\* behind it.
InitIds ==
    /\ instance = 1
    /\ calls = << >>
    /\ taskId \in [Tasks -> 1..NumIds]
    /\ taskId[1] = 1
    /\ \A t \in Tasks \ Clients : taskId[t] = 1
    /\ taskTimeout = TaskTimeoutArg
    /\ maxConcurrent = BacklogConcurrent
    /\ maxQueueSize = MaxQueueSizeArg
    /\ maxSize = MaxSizeArg
    /\ Fresh
    /\ NoInput

SpecIds == InitIds /\ [][Next]_vars

\* ------------------------------------------------------------ properties

Range(q) == {q[i] : i \in 1..Len(q)}

Running == {t \in Tasks : phase[t] = "running"}

\* the step is a call of enqueue for task t
EnqueueStep(t) == phase[t] = "new" /\ phase'[t] # "new"

\* the step admits task t: processNext moves it from the queue to a slot
AdmitStep(t) == phase[t] = "queued" /\ phase'[t] = "running"

\* slots a step frees before it admits: races that settle in the step
Freed == Cardinality({u \in Tasks : phase[u] = "running" /\ phase'[u] # "running"})

\* C1: in every reachable state 0 <= activeCount <= maxConcurrent and the
\* queue holds at most maxQueueSize tasks; a task moves from queued to
\* running only when the count of held slots, at the moment processNext
\* tests it, is strictly below maxConcurrent.
C1_Bounded ==
    /\ [](/\ activeCount \in 0..maxConcurrent
          /\ Len(queue) <= maxQueueSize)
    /\ [][\A t \in Tasks :
            AdmitStep(t) => activeCount - Freed < maxConcurrent]_vars

\* witness: both bounds are met at once, with two slots
C1_Witness ==
    /\ maxConcurrent = 2
    /\ activeCount = maxConcurrent
    /\ Len(queue) = maxQueueSize

\* C2: the handle of a task is signalled at most once: once it holds an
\* outcome, no later step (a late abort, the timer firing after completion,
\* the work settling after a cancellation or timeout, a cleanup pass)
\* changes it; the outcome of an accepted task is one of complete, fail,
\* timeout, cancel, expire.
C2_SettledOnce ==
    [][\A t \in Tasks :
          /\ handle[t] # "pending" => handle'[t] = handle[t]
          /\ phase'[t] \notin {"new", "rejected"} =>
                handle'[t] \in {"pending", "Complete", "Fail", "Timeout",
                                "Cancelled", "Expired"}]_vars

\* witness: a task that completed, whose client then disconnected and
\* whose timer then fired
C2_Witness ==
    \E t \in Tasks : /\ handle[t] = "Complete"
                      /\ phase[t] = "finished"
                      /\ aborted[t]
                      /\ ~timer[t]

\* C3: admission is first in, first out.  Task ids number the submissions
\* in order, so: works are started in increasing id order, the queue is
\* always in increasing id order, and no queued task precedes a task that
\* was started.
C3_Fifo ==
    /\ \A i, j \in 1..Len(started) : i < j => started[i] < started[j]
    /\ \A i, j \in 1..Len(queue) : i < j => queue[i] < queue[j]
    /\ \A a \in Range(queue) : \A b \in Range(started) : b < a

\* witness: task 3 was cancelled in the queue, and tasks 2 and 4, which
\* waited, were started in that order
C3_Witness ==
    /\ phase[3] = "removed"
    /\ started = <<1, 2, 4>>
    /\ startedAt[4] > timestamp[4]

\* C4: when the queue already holds maxQueueSize tasks, enqueue fails with
\* QueueFull and leaves the queue, activeCount and every task's work as
\* they were; the work of a task rejected with QueueFull is never executed.
C4_QueueFull ==
    /\ [](\A t \in Tasks : handle[t] = "QueueFull" =>
              /\ work[t] = "none"
              /\ t \notin Range(queue) \cup Range(started))
    /\ [][\A t \in Tasks :
            EnqueueStep(t) /\ Len(queue) >= maxQueueSize =>
               /\ handle'[t] = "QueueFull"
               /\ queue' = queue
               /\ activeCount' = activeCount
               /\ work' = work]_vars

\* witness: a task was rejected with QueueFull and the scheduler went on
\* to start a task that had been waiting
C4_Witness ==
    \E t \in Tasks : /\ handle[t] = "QueueFull"
                      /\ \E u \in Tasks : u < t /\ phase[u] = "running"
                                                 /\ startedAt[u] > 0

\* the step fires the abort signal of task t
AbortStep(t) == ~aborted[t] /\ aborted'[t]

\* C5: a task whose abort signal fires while it is queued is taken out of
\* the queue and its handle fails with Cancelled; its work is not executed
\* in any later state.
C5_CancelQueued ==
    /\ [](\A t \in Tasks : phase[t] = "removed" =>
              /\ handle[t] = "Cancelled"
              /\ work[t] = "none"
              /\ t \notin Range(queue) \cup Range(started))
    /\ [][\A t \in Tasks :
            AbortStep(t) /\ phase[t] = "queued" =>
               /\ phase'[t] = "removed"
               /\ t \notin Range(queue')
               /\ handle'[t] = "Cancelled"]_vars

\* witness: a task was cancelled in the queue and a task submitted after it
\* waited and was started
C5_Witness ==
    \E t, u \in Tasks : /\ phase[t] = "removed"
                         /\ t < u
                         /\ phase[u] = "running"
                         /\ startedAt[u] > timestamp[u]

TimeoutStep(t) == phase[t] = "running" /\ timer[t] /\ ~timer'[t]

\* what a step that settles the race of t does to the slot and the queue
SlotHandedOn(t) ==
    /\ phase'[t] = "finished"
    /\ IF queue = << >>
       THEN queue' = << >> /\ activeCount' = activeCount - 1
       ELSE /\ phase'[Head(queue)] = "running"
            /\ queue' = Tail(queue)
            /\ activeCount' = activeCount

\* C7 as stated: when the timer of a task that holds a slot fires, the
\* handle fails with Timeout, the slot is released once and the next queued
\* task, if any, is admitted.
C7_Original ==
    [][\A t \in Tasks :
          TimeoutStep(t) => handle'[t] = "Timeout" /\ SlotHandedOn(t)]_vars

\* C7 amended: when the timer of a task that holds a slot fires, the handle
\* fails with Timeout unless a client abort already failed it with
\* Cancelled, which it then keeps; either way the slot is released exactly
\* once (activeCount is the number of tasks holding a slot) and the next
\* queued task, if any, is admitted.
C7_Timeout ==
    /\ [](activeCount = Cardinality(Running))
    /\ [][\A t \in Tasks :
            TimeoutStep(t) =>
               /\ handle[t] \in {"pending", "Cancelled"}
               /\ handle'[t] = IF handle[t] = "pending" THEN "Timeout"
                                ELSE "Cancelled"
               /\ SlotHandedOn(t)]_vars

\* witness: task 1 timed out and its slot went to a task that had waited
\* since the start
C7_Witness ==
    /\ maxConcurrent = 1
    /\ handle[1] = "Timeout"
    /\ phase[2] = "running"
    /\ timestamp[2] = 0
    /\ startedAt[2] = taskTimeout

\* C8: a task that failed with Timeout has had its cancellation channel
\* signalled.
C8_TimeoutSignalsWork ==
    \A t \in Tasks : handle[t] = "Timeout" => aborted[t]

\* an accepted task whose handle holds no outcome yet
Unsettled(t) == phase[t] \in {"queued", "running"} /\ handle[t] = "pending"

\* C9 as stated: no accepted task is unsettled more than taskTimeout after
\* it was enqueued.
C9_Original ==
    \A t \in Tasks : Unsettled(t) => now - timestamp[t] <= taskTimeout

\* C9 amended: taskTimeout bounds the wait and the run separately.  A task
\* holds a slot for at most taskTimeout; a task is queued for at most
\* taskTimeout plus one cleanup interval; so an accepted task is unsettled
\* for at most twice taskTimeout plus one cleanup interval.
C9_SeparateBounds ==
    \A t \in Tasks :
        /\ phase[t] = "running" => now - startedAt[t] <= taskTimeout
        /\ phase[t] = "queued" =>
              now - timestamp[t] <= taskTimeout + CleanupInterval
        /\ Unsettled(t) =>
              now - timestamp[t] <= 2 * taskTimeout + CleanupInterval

\* witness: a task is unsettled twice taskTimeout after it was enqueued
C9_Witness ==
    \E t \in Tasks : /\ Unsettled(t)
                      /\ phase[t] = "running"
                      /\ now - timestamp[t] >= 2 * taskTimeout

\* position of task t in queue q
Pos(q, t) == CHOOSE i \in 1..Len(q) : q[i] = t

\* the step is a pass of the cleanup interval
CleanupStep == nextCleanup' # nextCleanup

\* C10: a cleanup pass fails with Expired exactly the queued tasks with
\* now - timestamp > taskTimeout and takes them out of the queue; the other
\* queued tasks stay queued in their order; every other task, the running
\* ones included, and activeCount are as they were.
C10_CleanupPass ==
    [][CleanupStep =>
         LET stale == {t \in Range(queue) : now - timestamp[t] > taskTimeout}
         IN /\ \A t \in stale : handle'[t] = "Expired"
            /\ Range(queue') = Range(queue) \ stale
            /\ Len(queue') = Cardinality(Range(queue'))
            /\ \A a, b \in Range(queue') :
                  Pos(queue', a) < Pos(queue', b) <=>
                  Pos(queue, a) < Pos(queue, b)
            /\ \A t \in Tasks \ stale : /\ handle'[t] = handle[t]
                                          /\ phase'[t] = phase[t]
                                          /\ timestamp'[t] = timestamp[t]
            /\ activeCount' = activeCount
            /\ work' = work
            /\ timer' = timer
            /\ startedAt' = startedAt]_vars

\* witness: a pass expired task 3 and left tasks 4 and 5 queued behind the
\* running task 2
C10_Witness ==
    /\ handle[3] = "Expired"
    /\ queue = <<4, 5>>
    /\ phase[2] = "running"

\* C11: a call of enqueue whose cancel signal is already signalled, with
\* room in the queue, fails the handle with Cancelled and leaves the queue,
\* activeCount and every work as they were; the work of such a task is never
\* executed and the task is never queued.
C11_PreAborted ==
    /\ [][\A t \in Tasks :
            (EnqueueStep(t) /\ aborted[t] /\ Len(queue) < maxQueueSize)
            => /\ handle'[t] = "Cancelled"
               /\ queue' = queue
               /\ activeCount' = activeCount
               /\ work' = work
               /\ started' = started]_vars
    /\ [](\A t \in Tasks :
            (phase[t] = "rejected" /\ handle[t] = "Cancelled")
            => /\ work[t] = "none"
               /\ t \notin Range(queue)
               /\ t \notin Range(started))

\* a pre-aborted submission was turned away while the queue had room and a
\* slot was taken, and the scheduler went on to run a later submission
C11_Witness ==
    \E t, u \in Tasks :
        /\ phase[t] = "rejected"
        /\ handle[t] = "Cancelled"
        /\ u > t
        /\ phase[u] = "running"
        /\ activeCount = maxConcurrent

\* the tasks a step of task t leaves alone: all but t and the head of queue
Bystanders(t) == Tasks \ ({t} \cup (IF queue = << >> THEN {} ELSE {Head(queue)}))

Untouched(t) ==
    \A u \in Bystanders(t) :
        /\ phase'[u] = phase[u]
        /\ handle'[u] = handle[u]
        /\ work'[u] = work[u]
        /\ timer'[u] = timer[u]

\* C12 as stated: whenever the work of a task that holds a slot throws, the
\* handle fails with the work's error, the slot is released once, the head
\* of the queue is admitted and no other task is touched.
C12_Original ==
    [][\A t \in Tasks :
          (WorkThrows(t) /\ phase[t] = "running")
          => /\ handle'[t] = "Fail"
             /\ SlotHandedOn(t)
             /\ Untouched(t)]_vars

\* C12, amended: when the work of a task that holds a slot throws, the
\* handle fails with the work's error unless a client abort already failed
\* it with Cancelled, which it keeps; the slot is released exactly once, the
\* head of the queue (if any) is admitted, no other task is touched, and
\* activeCount stays the number of tasks holding a slot.
C12_WorkThrows ==
    /\ [][\A t \in Tasks :
            (WorkThrows(t) /\ phase[t] = "running")
            => /\ handle'[t] = (IF handle[t] = "pending" THEN "Fail"
                                 ELSE "Cancelled")
               /\ handle[t] \in {"pending", "Cancelled"}
               /\ SlotHandedOn(t)
               /\ Untouched(t)]_vars
    /\ [](activeCount = Cardinality(Running) /\ activeCount <= maxConcurrent)

\* task 1 failed by its work, task 2 waited for its slot and got it, and
\* task 3 was submitted after that and accepted
C12_Witness ==
    /\ maxConcurrent = 1
    /\ handle[1] = "Fail"
    /\ phase[2] = "running"
    /\ startedAt[2] > timestamp[2]
    /\ phase[3] = "queued"
    /\ timestamp[3] > startedAt[2]

\* the requests submitted so far, and those enqueue accepted
Submitted == {t \in Tasks : phase[t] # "new"}
Accepted == {t \in Submitted : phase[t] # "rejected"}

\* no work has finished, timed out or expired since the first submission
NothingFinished ==
    \A t \in Submitted : phase[t] \in {"running", "queued", "rejected"}

\* while nothing has finished, the first maxConcurrent submissions run, the
\* next maxQueueSize wait and every later one was rejected with QueueFull
BurstLayout ==
    NothingFinished =>
        \A t \in Submitted :
            /\ t <= maxConcurrent => phase[t] = "running"
            /\ (t > maxConcurrent /\ t <= maxConcurrent + maxQueueSize)
               => phase[t] = "queued"
            /\ t > maxConcurrent + maxQueueSize
               => phase[t] = "rejected" /\ handle[t] = "QueueFull"

C14_Signalled ==
    \A t \in Clients :
        (phase[t] \in {"queued", "running"}) ~> (handle[t] # "pending")

\* no work ever returned: task 1 was signalled by its timer, and task 3,
\* stuck behind task 2, by the cleanup pass
C14_Witness ==
    /\ maxConcurrent = 1
    /\ \A t \in Clients : ~aborted[t]
    /\ handle[1] = "Timeout" /\ work[1] = "executing"
    /\ phase[2] = "running" /\ work[2] = "executing"
    /\ handle[3] = "Expired"

\* the entries of a cache, and its keys
Entries(c) == {c[i] : i \in 1..Len(c)}
Keys(c) == {c[i].hash : i \in 1..Len(c)}

\* the entries of key h that are not older than ttl at time t
Live(c, h, t) == {e \in Entries(c) : e.hash = h /\ t - e.timestamp <= ttl}

\* C15: get(b) returns the stored value exactly if an entry of hash(b)
\* exists whose age does not exceed ttl, and null otherwise; it deletes the
\* entry of hash(b) if that has expired and changes nothing else, so that a
\* second get(b) gives the same answer, and no value older than ttl is
\* returned.
C15_Get ==
    [][\A b \in Bytes :
          CacheGet(b) =>
             LET h == generateHash(b)
             IN /\ \A e \in Live(cache, h, now) : got'.data = e.data
                /\ Live(cache, h, now) = {} => got'.data = NoValue
                /\ Entries(cache') =
                      {e \in Entries(cache) :
                          e.hash # h \/ now - e.timestamp <= ttl}
                /\ \A i, j \in 1..Len(cache') :
                      i < j => \E k, l \in 1..Len(cache) :
                                  /\ k < l
                                  /\ cache[k] = cache'[i]
                                  /\ cache[l] = cache'[j]
                /\ GetValue(cache', b, now) = got'.data
                /\ GetCache(cache', b, now) = cache']_vars

\* get has just returned a value whose entry is exactly ttl old, next to an
\* entry of another key
C15_Witness ==
    /\ got.at = now
    /\ got.data # NoValue
    /\ \E e \in Entries(cache) :
          e.hash = got.hash /\ e.data = got.data /\ now - e.timestamp = ttl
    /\ \E e \in Entries(cache) : e.hash # got.hash

\* C16: the cache never holds more than maxSize entries, and never two of
\* one key.
C16_Bounded ==
    /\ Len(cache) <= maxSize
    /\ Cardinality(Keys(cache)) = Len(cache)

\* a cache of one entry: the key that get has just found was replaced by
\* another one in the same instant
C16_Witness ==
    /\ maxSize = 1
    /\ Len(cache) = 1
    /\ got.at = now
    /\ got.data # NoValue
    /\ cache[1].hash # got.hash
    /\ cache[1].timestamp = now

\* C17: a call of set at capacity first evicts an entry whose timestamp is
\* the smallest in the cache and then inserts the new one; get never
\* changes the timestamp of an entry.
C17_Eviction ==
    [][/\ \A b \in Bytes, v \in Values :
            (CacheSet(b, v) /\ Len(cache) >= maxSize) =>
               \E old \in Entries(cache) :
                  /\ \A e \in Entries(cache) : old.timestamp <= e.timestamp
                  /\ Entries(cache') =
                        {e \in Entries(cache) :
                            e # old /\ e.hash # generateHash(b)}
                        \cup {[hash |-> generateHash(b), data |-> v,
                                timestamp |-> now]}
       /\ \A b \in Bytes :
            CacheGet(b) => Entries(cache') \subseteq Entries(cache)]_vars

\* two entries: the older one was read just now, a set of a third key then
\* took its place and left the younger entry alone
C17_Witness ==
    /\ maxSize = 2
    /\ Len(cache) = 2
    /\ got.at = now
    /\ got.data # NoValue
    /\ got.hash \notin Keys(cache)
    /\ cache[1].timestamp < now
    /\ cache[2].timestamp = now

\* C18: after set(b, v) the entry of hash(b) holds v, stamped now, also when
\* the cache was full and whether or not b had an entry; a get(b) that
\* finds an entry stamped now returns its value.  Hence set(b, v); get(b)
\* returns v, and set(b, v1); set(b, v2); get(b) returns v2.
C18_RoundTrip ==
    [][/\ \A b \in Bytes, v \in Values :
            CacheSet(b, v) =>
               /\ \A e \in Entries(cache') :
                     e.hash = generateHash(b)
                     => e.data = v /\ e.timestamp = now
               /\ generateHash(b) \in Keys(cache')
               /\ GetValue(cache', b, now) = v
       /\ \A b \in Bytes :
            CacheGet(b) =>
               \A e \in Entries(cache) :
                  (e.hash = generateHash(b) /\ e.timestamp = now)
                  => got'.data = e.data]_vars

\* a full cache, some time after the start: an entry was set in this
\* instant and get has returned its value
C18_Witness ==
    /\ Len(cache) = maxSize
    /\ got.at = now
    /\ got.data = NumValues
    /\ \E e \in Entries(cache) :
          e.hash = got.hash /\ e.data = got.data /\ e.timestamp = now
    /\ now > 0

\* the pipeline runs made so far on body b
Runs(b) == {t \in Range(started) : bytes[t] = b}

\* the step is the arrival of request u with body b
SubmitStep(u, b) == phase[u] = "new" /\ phase'[u] # "new" /\ bytes'[u] = b

\* C19 as stated: of two requests with the same body that were both
\* answered with success within ttl of the start, the second carries the
\* data of the first and the pipeline ran once on that body.  (Data are
\* named by the run that produced them, so different data means two runs.)
C19_Original ==
    \A t, u \in Clients :
        (/\ t < u
         /\ now <= ttl
         /\ bytes[t] # 0
         /\ bytes[t] = bytes[u]
         /\ resp[t].status = 200
         /\ resp[u].status = 200)
        => /\ Cardinality(Runs(bytes[t])) <= 1
           /\ resp[u].data = resp[t].data

\* C19, amended: a request that arrives, not cancelled, while the cache
\* holds an entry of its body no older than ttl is answered at once with
\* that entry's data, marked cached, and starts no pipeline run and no
\* task; every cached answer carries the data of the uncached success
\* answer of an earlier request with the same body.  A request that finds
\* no such entry gets a task of its own.
C19_ServedFromCache ==
    /\ [][\A u \in Clients, b \in Uploads :
            (SubmitStep(u, b) /\ ~aborted[u])
            => /\ \A e \in Live(cache, generateHash(b), now) :
                     /\ resp'[u] = Response(200, e.data, TRUE)
                     /\ started' = started
                     /\ queue' = queue
                     /\ activeCount' = activeCount
                     /\ handle'[u] = "pending"
                     /\ work'[u] = "none"
               /\ Live(cache, generateHash(b), now) = {}
                  => /\ resp'[u].status = 0
                     /\ phase'[u] \in {"queued", "running", "rejected"}]_vars
    /\ [](\A u \in Clients :
            resp[u].cached
            => \E t \in Clients :
                  /\ t < u
                  /\ bytes[t] = bytes[u]
                  /\ resp[t] = Response(200, resp[u].data, FALSE)
                  /\ handle[t] = "Complete"
                  /\ u \notin Range(started))

\* request 1 ran the pipeline; requests 2 and 3, same body, were answered
\* from the cache with its data, and the pipeline ran once
C19_Witness ==
    /\ resp[1] = Response(200, Result(1), FALSE)
    /\ resp[2] = Response(200, Result(1), TRUE)
    /\ resp[3] = Response(200, Result(1), TRUE)
    /\ bytes[2] = bytes[1] /\ bytes[3] = bytes[1]
    /\ started = <<1>>

\* C20: every entry of the cache holds the result of a pipeline run on
\* that body that completed, and an entry is inserted or overwritten only
\* by the continuation of a request whose task completed; a request that
\* was rejected, cancelled, timed out, expired or failed changes no entry.
C20_OnlySuccessCached ==
    /\ [](\A e \in Entries(cache) :
            \E t \in Clients :
               /\ generateHash(bytes[t]) = e.hash
               /\ e.data = Result(t)
               /\ handle[t] = "Complete"
               /\ work[t] = "settled"
               /\ t \in Range(started))
    /\ [][\A e \in Entries(cache') \ Entries(cache) :
            \E t \in Clients :
               /\ handle[t] = "Complete"
               /\ resp[t].status = 0
               /\ resp'[t] = Response(200, Result(t), FALSE)
               /\ e = [hash |-> generateHash(bytes[t]), data |-> Result(t),
                       timestamp |-> now]]_vars
    /\ [][\A t \in Clients :
            (resp[t].status = 0 /\ resp'[t].status \in {499, 500})
            => Entries(cache') \subseteq Entries(cache)]_vars

\* three requests with one body: the first completed and its result is the
\* entry; the second, queued meanwhile, failed in its work and the third
\* was cancelled, and the entry is still the first's
C20_Witness ==
    /\ bytes[2] = bytes[1] /\ bytes[3] = bytes[1]
    /\ resp[1] = Response(200, Result(1), FALSE)
    /\ handle[2] = "Fail" /\ resp[2].status = 500
    /\ handle[3] = "Cancelled" /\ resp[3].status = 499
    /\ Len(cache) = 1
    /\ cache[1].data = Result(1)

\* C25: a request whose handle was rejected is answered by the kind of the
\* rejection: QueueFull with 503, Timeout with 504, Cancelled with 499, and
\* any other failure (a throwing work, a task expired in the queue) with
\* 500.
C25_StatusByKind ==
    \A t \in Clients :
       (resp[t].status # 0 /\ handle[t] \notin {"pending", "Complete"})
       => resp[t].status = CASE handle[t] = "QueueFull" -> 503
                             [] handle[t] = "Timeout" -> 504
                             [] handle[t] = "Cancelled" -> 499
                             [] OTHER -> 500

\* C26: a request whose signal fired before its response was sent is
\* answered with 499 and no data, never with a cached or a fresh result;
\* the step that answers it leaves the cache as it was, and no entry of
\* the cache holds the result of a cancelled request.
C26_CancelledNoBody ==
    /\ [](\A t \in Clients :
            (aborted[t] /\ resp[t].status # 0)
            => resp[t] = Response(499, NoValue, FALSE))
    /\ [][\A t \in Clients :
            (aborted'[t] /\ (~aborted[t] \/ resp'[t] # resp[t]))
            => cache' = cache]_vars
    /\ [](\A e \in Entries(cache), t \in Clients :
            e.data = Result(t) => ~aborted[t])

\* request 1 completed and its result is cached; request 2, with another
\* body, was cancelled while its work ran and got 499 without data, and the
\* cache still holds request 1's entry only
C26_Witness ==
    /\ resp[1] = Response(200, Result(1), FALSE)
    /\ bytes[2] # 0 /\ bytes[2] # bytes[1]
    /\ aborted[2]
    /\ 2 \in Range(started)
    /\ work[2] = "executing"
    /\ resp[2] = Response(499, NoValue, FALSE)
    /\ Len(cache) = 1
    /\ cache[1].data = Result(1)

\* the frame step of the audio at hand
FrameStepOf == audioDuration \div Len(outputData)

\* the active speaker of a frame, by the rule: the lowest class among
\* those of the highest speaker probability, if that exceeds the
\* threshold, less one; -1 for non-speech
Active(p) ==
    LET best == CHOOSE k \in 2..Len(p) :
                   /\ \A j \in 2..Len(p) : p[j] <= p[k]
                   /\ \A j \in 2..(k - 1) : p[j] < p[k]
    IN IF p[best] > threshold THEN best - 2 ELSE -1

\* the maximal runs of a speaker: frames first..last (counted from 1)
MaximalRuns ==
    {r \in [first : 1..Len(outputData), last : 1..Len(outputData),
            speaker : 0..(NumClasses - 2)] :
        /\ r.first <= r.last
        /\ \A f \in r.first..r.last : Active(outputData[f]) = r.speaker
        /\ r.first > 1 => Active(outputData[r.first - 1]) # r.speaker
        /\ r.last < Len(outputData)
           => Active(outputData[r.last + 1]) # r.speaker}

\* the segment of a run: from the time of its first frame to the time of
\* the first frame after it, which is the end of the audio for the last
RunSegment(r) ==
    [startTime |-> (r.first - 1) * FrameStepOf,
     endTime |-> IF r.last = Len(outputData) THEN audioDuration
                 ELSE r.last * FrameStepOf,
     speaker |-> r.speaker]

RunIsLong(r) ==
    RunSegment(r).endTime - RunSegment(r).startTime >= MinDuration

\* C27: the segments post-processing returns are in strictly increasing
\* order of startTime, and a segment ends no later than the next starts.
C27_OrderedDisjoint ==
    processed
    => \A i \in 1..(Len(segments) - 1) :
          /\ segments[i].startTime < segments[i + 1].startTime
          /\ segments[i].endTime <= segments[i + 1].startTime

\* three segments, the second starting where the first ends and the third
\* after a gap
C27_Witness ==
    /\ processed
    /\ Len(segments) = 3
    /\ segments[1].endTime = segments[2].startTime
    /\ segments[2].endTime < segments[3].startTime

\* C28: every returned segment ends after it starts and lasts at least
\* MinDuration; a run shorter than that, ended by a change of speaker or
\* by the end of the stream, has no segment.
C28_MinDuration ==
    processed
    => /\ \A i \in 1..Len(segments) :
             /\ segments[i].endTime > segments[i].startTime
             /\ segments[i].endTime - segments[i].startTime >= MinDuration
       /\ \A r \in MaximalRuns :
             ~RunIsLong(r)
             => \A i \in 1..Len(segments) :
                   segments[i].startTime # RunSegment(r).startTime

\* frames of a quarter second: two of speaker 0, one of speaker 1, one of
\* speaker 0; the short run in the middle and the short one at the end are
\* dropped, the run of exactly half a second is returned
C28_Witness ==
    /\ processed
    /\ Len(outputData) = 4
    /\ audioDuration = 4
    /\ [f \in 1..4 |-> Active(outputData[f])] = <<0, 0, 1, 0>>
    /\ segments = <<[startTime |-> 0, endTime |-> 2, speaker |-> 0]>>

\* C29: the returned segments are exactly the segments of the maximal runs
\* that last at least MinDuration, each once: from the time of the run's
\* first frame to the time of the first frame after it, for the run's
\* speaker.
C29_ExactlyLongRuns ==
    processed
    => LET long == {r \in MaximalRuns : RunIsLong(r)}
       IN /\ Range(segments) = {RunSegment(r) : r \in long}
          /\ Len(segments) = Cardinality(long)

\* frames of half a second: a tie of both speakers above the threshold
\* (speaker 0), speaker 1 clearly, both exactly at the threshold
\* (non-speech), then speaker 1 to the end of the audio
C29_Witness ==
    /\ processed
    /\ Len(outputData) = 5
    /\ audioDuration = 10
    /\ outputData[1][2] = outputData[1][3]
    /\ outputData[3][2] = threshold /\ outputData[3][3] = threshold
    /\ segments = <<[startTime |-> 0, endTime |-> 2, speaker |-> 0],
                    [startTime |-> 2, endTime |-> 4, speaker |-> 1],
                    [startTime |-> 6, endTime |-> 10, speaker |-> 1]>>

\* the result has been built
Built == result.method # "none"

\* position of the first segment of speaker id in the list at hand
FirstOf(id) ==
    CHOOSE i \in 1..Len(speakerSegments) :
       /\ speakerSegments[i].speaker = id
       /\ \A j \in 1..(i - 1) : speakerSegments[j].speaker # id

\* the speaker ids of the list at hand
Heard == {speakerSegments[i].speaker : i \in 1..Len(speakerSegments)}

RECURSIVE CountSum(_, _)
\* segmentCount of the entries k.. of the summary, added up
CountSum(summary, k) ==
    IF k > Len(summary)
    THEN 0
    ELSE summary[k].segmentCount + CountSum(summary, k + 1)

\* C30: in a result the handler built, the speakers summary lists each
\* speaker id of the segments once, in the order of first appearance; its
\* k-th entry has display number k and colour (k - 1) mod 5 of the
\* palette; totalSpeakers is the number of different ids; every segment
\* carries the display name of its own speaker and the duration
\* endTime - startTime; the segment counts add up to the number of
\* segments.
C30_SpeakerSummary ==
    Built
    => /\ {result.speakers[k].id : k \in 1..Len(result.speakers)}
          = {IdString(id) : id \in Heard}
       /\ Len(result.speakers) = Cardinality(Heard)
       /\ \A id1 \in Heard, id2 \in Heard, k1, k2 \in 1..Len(result.speakers) :
             (/\ result.speakers[k1].id = IdString(id1)
              /\ result.speakers[k2].id = IdString(id2)
              /\ FirstOf(id1) < FirstOf(id2))
             => k1 < k2
       /\ \A k \in 1..Len(result.speakers) :
             /\ result.speakers[k].name = DisplayName(k)
             /\ result.speakers[k].color = Palette[((k - 1) % 5) + 1]
       /\ result.totalSpeakers = Cardinality(Heard)
       /\ Len(result.segments) = Len(speakerSegments)
       /\ \A i \in 1..Len(speakerSegments) :
             /\ result.segments[i].startTime = speakerSegments[i].startTime
             /\ result.segments[i].endTime = speakerSegments[i].endTime
             /\ result.segments[i].duration
                = speakerSegments[i].endTime - speakerSegments[i].startTime
             /\ \E k \in 1..Len(result.speakers) :
                   /\ result.speakers[k].id
                      = IdString(speakerSegments[i].speaker)
                   /\ result.segments[i].speaker = result.speakers[k].name
       /\ CountSum(result.speakers, 1) = Len(speakerSegments)

\* six speakers, the first heard not being speaker 0: the sixth gets the
\* first colour of the palette again
C30_Witness ==
    /\ Built
    /\ result.totalSpeakers = 6
    /\ speakerSegments[1].speaker = 3
    /\ result.speakers[1].id = IdString(3)
    /\ result.speakers[6].color = Palette[1]
    /\ result.segments[1].speaker = DisplayName(1)

\* the positions inside separateSpeaker, from taking the flag to the
\* return or the throw
InSeparate == {"entered", "writing", "extracting", "separating", "copying"}

\* the work of r calls separateSpeaker in this step
CallStep(r) ==
    /\ pc[r] = "initializing"
    /\ pc'[r] \notin {"initializing", "initfailed"}

\* C21: at most one call of separateSpeaker is in progress, and the flag
\* is set exactly while one is; a call made while another is in progress
\* fails at once as busy, starts no subprocess, creates and tracks no
\* file, and leaves the flag and the call in progress as they are.
C21_OneSeparation ==
    /\ [](/\ Cardinality({r \in Callers : pc[r] \in InSeparate}) <= 1
          /\ processing <=> \E r \in Callers : pc[r] \in InSeparate)
    /\ [][\A r \in Callers :
            CallStep(r)
            => IF \E q \in Callers : pc[q] \in InSeparate
               THEN /\ pc'[r] = "busy"
                    /\ processing'
                    /\ disk' = disk
                    /\ tempFiles' = tempFiles
                    /\ seg' = seg
                    /\ clips' = clips
                    /\ \A q \in Callers \ {r} : pc'[q] = pc[q]
               ELSE pc'[r] = "entered"]_vars

\* call 1 is at its second segment, its subprocess running, and call 2
\* was turned away as busy: the files of call 1 are there and none of
\* call 2
C21_Witness ==
    /\ pc[1] = "separating"
    /\ seg[1] = 1
    /\ pc[2] = "busy"
    /\ processing
    /\ disk = {InputPath(1), SegmentPath(1, 1), FinalPath(1, 0)}
    /\ tempFiles = disk

\* C22: every file in the temp directory is in the tracked set, and once
\* separateSpeaker has thrown, by failure or by cancellation, no file that
\* call created is left.
C22_NothingLeft ==
    /\ disk \subseteq tempFiles
    /\ \A r \in Callers :
          pc[r] \in {"sepfailed", "sepcancelled"}
          => \A f \in disk : f[2] # r

\* C24: when the work of a separation request has finished, by return or
\* by throw, none of its final clips is in the temp directory or in the
\* tracked set.
C24_ClipsRemoved ==
    \A r \in Callers :
       pc[r] \in Finished
       => \A i \in 0..(NumSegments - 1) :
             FinalPath(r, i) \notin (disk \cup tempFiles)

\* C23: when the response to a request that was cancelled while its task
\* ran has been sent, no temp file of that request is left in the temp
\* directory.
C23_CleanBeforeResponse ==
    \A r \in Callers :
       (resp[r].status = 499 /\ r \in Range(started))
       => \A f \in disk : f[2] # r

\* C31: every call of getInstance returns the same instance, and the
\* instance's maxConcurrent, maxQueueSize and taskTimeout are the arguments
\* of the first call, whatever the later calls pass.
C31_Singleton ==
    calls # << >> =>
       /\ \A i \in 1..Len(calls) : calls[i].returned = calls[1].returned
       /\ instance = calls[1].returned
       /\ Config(maxConcurrent, maxQueueSize, taskTimeout) = calls[1].args

\* witness: three calls, the later two with arguments that differ from the
\* first call's in every position, the last one with a task in the queue
C31_Witness ==
    /\ Len(calls) = NumGets
    /\ \A i \in 2..NumGets :
          /\ calls[i].args.maxConcurrent # calls[1].args.maxConcurrent
          /\ calls[i].args.maxQueueSize # calls[1].args.maxQueueSize
          /\ calls[i].args.taskTimeout # calls[1].args.taskTimeout
    /\ queue # << >>

\* the scheduler is idle: nothing runs and nothing waits
Idle == activeCount = 0 /\ Len(queue) = 0

\* C32: from every reachable state in which the scheduler is not idle it
\* becomes idle again (activeCount = 0 and an empty queue), also after
\* client aborts and failed works, as long as timers and the cleanup
\* interval keep firing; submissions stop at some point.
C32_ReturnsToIdle == ~Idle ~> Idle

\* witness: the scheduler is idle again after a work hung until its timeout,
\* a client disconnected and a work threw
C32_Witness ==
    /\ Idle
    /\ \E a, b, c \in Clients :
          /\ handle[a] = "Timeout" /\ work[a] = "executing"
          /\ handle[b] = "Cancelled" /\ aborted[b]
          /\ handle[c] = "Fail"

\* the event sequences the protocol allows for one task, and their prefixes
Protocol ==
    {<< >>, <<"queued">>, <<"queued", "started">>,
     <<"queued", "started", "completed">>, <<"queued", "started", "failed">>,
     <<"queued", "removed">>, <<"queued", "expired">>}

\* C33: the events of each accepted task follow the protocol: one queued
\* event first, then either started followed by at most one of completed
\* and failed, or one of removed and expired; never two terminal events and
\* never started after removed or expired.  A task enqueue turned away
\* emits nothing.
C33_Protocol ==
    \A t \in Clients :
        /\ emitted[t] \in Protocol
        /\ phase[t] \in {"new", "rejected"} <=> emitted[t] = << >>

\* witness: one task failed by its timeout, one expired in the queue behind
\* it, one completed
C33_Witness ==
    \E a, b, c \in Clients :
        /\ emitted[a] = <<"queued", "started", "failed">>
        /\ emitted[b] = <<"queued", "expired">>
        /\ emitted[c] = <<"queued", "started", "completed">>

\* C34: whenever the queue is not empty every slot is taken: no task waits
\* while activeCount is below maxConcurrent.
C34_WorkConserving == queue # << >> => activeCount = maxConcurrent

\* witness: a task waits behind a running task after a timeout freed the
\* slot and the slot was handed on
C34_Witness ==
    /\ activeCount = maxConcurrent
    /\ queue # << >>
    /\ \E t \in Clients : handle[t] = "Timeout"

\* the works that were called and have neither returned nor thrown
Executing == {t \in Tasks : work[t] = "executing"}

\* C35: the number of works that are executing never exceeds maxConcurrent.
C35_WorksBounded == Cardinality(Executing) <= maxConcurrent

\* C36: when the cancel signal of a task fires, the queue afterwards is the
\* queue before without that task: every other queued task is still queued,
\* in the same order, whatever ids the callers chose.
C36_OthersStay ==
    [][\A a \in Clients :
          (~aborted[a] /\ aborted'[a])
          => queue' = Filter(queue, Range(queue) \ {a})]_vars

\* C37: 'task-completed' is emitted for a task only if the submitter's
\* handle resolved with the work's value; a task whose submitter received
\* Cancelled or Timeout never emits it.
C37_CompletedMeansResolved ==
    \A t \in Clients :
        "completed" \in Range(emitted[t]) => handle[t] = "Complete"

\* the positions at which a call of separateSpeaker or of processAudio holds
\* the flag
Holding == InSeparate \cup {"converting", "unlinking"}

C39_AdmittedRunsFree ==
    maxConcurrent = 2 =>
       \A r \in Callers : r \in Range(started) => pc[r] # "busy"

\* C40: a set on a key that is present in a cache at capacity replaces that
\* entry and nothing else: every other entry is still there, unchanged, and
\* the size is the same.
C40_OverwriteKeepsOthers ==
    [][\A b \in Bytes, v \in Values :
          (/\ CacheSet(b, v)
           /\ CacheIsFull(cache)
           /\ generateHash(b) \in Keys(cache))
          => /\ Len(cache') = Len(cache)
             /\ \A e \in Entries(cache) :
                   e.hash # generateHash(b) => e \in Entries(cache')
             /\ [hash |-> generateHash(b), data |-> v, timestamp |-> now]
                   \in Entries(cache')]_vars
====
